---- MODULE Spec2Model ----
(***************************************************************************)
(* Rate-limit store, key scheduler and generation pipeline of              *)
(* pyservice/main.py.                                                      *)
(*                                                                         *)
(* Time is counted in clock ticks, Resolution ticks to the second, so that *)
(* the float timestamps of the service (time.time()) keep a sub-second     *)
(* part and math.ceil is not the identity.                                 *)
(***************************************************************************)
EXTENDS Integers, Sequences, FiniteSets, TLC

VARIABLES
    now,          \* the wall clock, in ticks
    api_keys,     \* the configured key pool (get_google_cloud_api_keys)
    limits,       \* bucket -> [rpm, rpd] (get_gemini_rate_limit_defaults)
    runtime_on,   \* enabled flag /\ auth mode api_key /\ profile gemini
    events,       \* RateLimitStore._state["events"]: bucket -> fingerprint -> list
    updated_at,   \* RateLimitStore._state["updated_at"], in whole seconds
    disk,         \* the state file: <<>> when absent, else <<document>>
    tmp_file,     \* the file beside it that _persist_locked writes first
    cursor,       \* _api_key_round_robin_cursor
    next_id,      \* the number of event ids drawn so far (uuid4 is fresh)
    issued,       \* the reservations handed out by reserve_key
    last,         \* the last store operation and what it returned
    req,          \* the generate_grid requests in flight
    tally         \* observer of the scheduler: the current run of reservations

vars == <<now, api_keys, limits, runtime_on, events, updated_at, disk, tmp_file,
          cursor, next_id, issued, last, req, tally>>

-----------------------------------------------------------------------------
(* Bounds of the model *)

Resolution == 2
MaxOff == 1
MaxKeys == 2
MaxEvents == 2
MaxGrants == 3
MaxPipeGrants == 2
MaxCursor == 4
MaxCrashGrants == 1

(* Program constants *)

RPM_WINDOW_SECONDS == 60
RPD_WINDOW_SECONDS == 86400
DEFAULT_RETRY_AFTER_SECONDS == 30

MODEL_BUCKET_NANO == "nano_banana"
MODEL_BUCKET_PRO == "nano_banana_pro"
MODEL_BUCKETS == {MODEL_BUCKET_NANO, MODEL_BUCKET_PRO}

RpmWindow == RPM_WINDOW_SECONDS * Resolution
RpdWindow == RPD_WINDOW_SECONDS * Resolution

(* The instants the clock visits: the start, MaxOff ticks later, and one   *)
(* minute and one day after that, so that an event of tick MaxOff is the   *)
(* oldest one still inside a window and an event of tick 0 is outside.     *)
TimePoints == {0, MaxOff, RpmWindow + MaxOff, RpdWindow + MaxOff}

AllKeys == [i \in 1..(MaxKeys + 1) |-> i]
KeyPools == {SubSeq(AllKeys, 1, n) : n \in 0..MaxKeys}

LimitConfigs ==
    { [b \in MODEL_BUCKETS |->
          IF b = MODEL_BUCKET_NANO THEN [rpm |-> 1, rpd |-> 2]
                                   ELSE [rpm |-> 2, rpd |-> 2]],
      [b \in MODEL_BUCKETS |->
          IF b = MODEL_BUCKET_NANO THEN [rpm |-> 2, rpd |-> 3]
                                   ELSE [rpm |-> 0, rpd |-> 1]] }

-----------------------------------------------------------------------------
(* Helpers *)

Max(a, b) == IF a >= b THEN a ELSE b

(* fault: the first wait collected stands for the smallest *)
MinOf_First(s) == s[1]

RECURSIVE MinOf(_)
MinOf(s) ==
    IF Len(s) = 1 THEN s[1]
    ELSE LET m == MinOf(Tail(s)) IN IF s[1] <= m THEN s[1] ELSE m

RECURSIVE MaxOf(_)
MaxOf(s) ==
    IF Len(s) = 1 THEN s[1]
    ELSE LET m == MaxOf(Tail(s)) IN IF s[1] >= m THEN s[1] ELSE m

(* math.ceil of a duration of t ticks, in seconds *)
CeilSeconds(t) == (t + Resolution - 1) \div Resolution

(* now_iso: time.strftime truncates to whole seconds *)
now_iso(ts) == ts \div Resolution

(* The settings of VERTEX_RETRY_AFTER_SECONDS: not set (or empty), a text  *)
(* that is no integer, or an integer                                        *)
RetryAfterSettings ==
    {[kind |-> "unset", value |-> 0], [kind |-> "text", value |-> 0]}
        \cup {[kind |-> "int", value |-> v] : v \in -1..2}

VERTEX_RETRY_AFTER_SECONDS == [kind |-> "unset", value |-> 0]

(* fault: the configured integer is used as it is *)
ParseRetryAfter_Unchecked(raw) ==
    IF raw.kind = "int" THEN raw.value ELSE DEFAULT_RETRY_AFTER_SECONDS

(* the body of get_retry_after_seconds, for a setting of the variable *)
ParseRetryAfter(raw) ==
    IF raw.kind = "unset" THEN DEFAULT_RETRY_AFTER_SECONDS
    ELSE IF raw.kind = "text" THEN DEFAULT_RETRY_AFTER_SECONDS
    ELSE IF raw.value <= 0 THEN DEFAULT_RETRY_AFTER_SECONDS
    ELSE raw.value

get_retry_after_seconds == ParseRetryAfter(VERTEX_RETRY_AFTER_SECONDS)

(* fault: an id generator that hands out the same id every time *)
uuid4_Constant(drawn) == 1

(* uuid.uuid4().hex: an id no earlier draw returned, `drawn` ids having     *)
(* been drawn so far                                                        *)
uuid4(drawn) == drawn + 1

(* sha256(key)[:16]: one fingerprint per key, distinct keys apart *)
fingerprint_api_key(api_key) == 100 + api_key

Fingerprints == {fingerprint_api_key(AllKeys[i]) : i \in DOMAIN AllKeys}

(* dict operations *)
DictDel(d, k) == [x \in DOMAIN d \ {k} |-> d[x]]
DictSet(d, k, v) == [x \in DOMAIN d \cup {k} |-> IF x = k THEN v ELSE d[x]]
EmptyDict == [x \in {} |-> {}]

(* list.sort(key=ts): a stable insertion sort *)
RECURSIVE InsertByTs(_, _)
InsertByTs(sorted, e) ==
    IF sorted = <<>> THEN <<e>>
    ELSE IF Head(sorted).ts <= e.ts
         THEN <<Head(sorted)>> \o InsertByTs(Tail(sorted), e)
         ELSE <<e>> \o sorted

RECURSIVE SortByTs(_)
SortByTs(entries) ==
    IF entries = <<>> THEN <<>>
    ELSE LET n == Len(entries)
         IN InsertByTs(SortByTs(SubSeq(entries, 1, n - 1)), entries[n])

-----------------------------------------------------------------------------
(* RateLimitStore *)

(* fault: a prune that drops nothing *)
PruneLocked_KeepsAll(ev, now_ts) == [events |-> ev, changed |-> FALSE]

(* fault: an event is dropped already when its ts is the cutoff *)
PruneLocked_DropsAtCutoff(ev, now_ts) ==
    LET cutoff == now_ts - RpdWindow
        Fresh(entry) == entry.ts > cutoff
        kept(b, f) == SelectSeq(ev[b][f], Fresh)
        pruned_bucket(b) ==
            [f \in {g \in DOMAIN ev[b] : kept(b, g) # <<>>} |-> kept(b, f)]
        pruned ==
            [b \in {c \in DOMAIN ev : DOMAIN pruned_bucket(c) # {}} |->
                pruned_bucket(b)]
    IN [events |-> pruned, changed |-> pruned # ev]

(* _prune_locked: the pruned events and whether anything changed *)
PruneLocked(ev, now_ts) ==
    LET cutoff == now_ts - RpdWindow
        Fresh(entry) == entry.ts >= cutoff
        kept(b, f) == SelectSeq(ev[b][f], Fresh)
        pruned_bucket(b) ==
            [f \in {g \in DOMAIN ev[b] : kept(b, g) # <<>>} |-> kept(b, f)]
        pruned ==
            [b \in {c \in DOMAIN ev : DOMAIN pruned_bucket(c) # {}} |->
                pruned_bucket(b)]
        changed ==
            \/ \E b \in DOMAIN ev : \E f \in DOMAIN ev[b] :
                   \/ Len(kept(b, f)) # Len(ev[b][f])
                   \/ kept(b, f) = <<>>
            \/ \E b \in DOMAIN ev : DOMAIN pruned_bucket(b) = {}
    IN [events |-> pruned, changed |-> changed]

(* _entries_locked: the events dict after the two setdefault calls *)
EntriesLocked(ev, bucket, key_fingerprint) ==
    LET bucket_events == IF bucket \in DOMAIN ev THEN ev[bucket] ELSE EmptyDict
        entries == IF key_fingerprint \in DOMAIN bucket_events
                   THEN bucket_events[key_fingerprint] ELSE <<>>
    IN DictSet(ev, bucket, DictSet(bucket_events, key_fingerprint, entries))

(* _usage_for_entries *)
UsageForEntries(entries, now_ts) ==
    LET rpm_cutoff == now_ts - RpmWindow
        rpd_cutoff == now_ts - RpdWindow
        InMinute(entry) == entry.ts >= rpm_cutoff
        InDay(entry) == entry.ts >= rpd_cutoff
        minute_events == SelectSeq(entries, InMinute)
        day_events == SelectSeq(entries, InDay)
    IN [rpm_used |-> Len(minute_events),
        rpd_used |-> Len(day_events),
        minute_events |-> SortByTs(minute_events),
        day_events |-> SortByTs(day_events)]

(* fault: a key is never reported as having to wait *)
KeyWaitSecondsLocked_Never(entries, lim, now_ts) == 0

(* fault: the wait is over as soon as the first of the two windows opens *)
KeyWaitSecondsLocked_MinOfWindows(entries, lim, now_ts) ==
    IF lim.rpm <= 0 \/ lim.rpd <= 0 THEN get_retry_after_seconds
    ELSE LET u == UsageForEntries(entries, now_ts)
             minute_wait ==
                 IF u.rpm_used >= lim.rpm /\ u.minute_events # <<>>
                 THEN <<Max(0, u.minute_events[u.rpm_used - lim.rpm + 1].ts
                                 + RpmWindow - now_ts)>>
                 ELSE <<>>
             day_wait ==
                 IF u.rpd_used >= lim.rpd /\ u.day_events # <<>>
                 THEN <<Max(0, u.day_events[u.rpd_used - lim.rpd + 1].ts
                                 + RpdWindow - now_ts)>>
                 ELSE <<>>
             waits == minute_wait \o day_wait
         IN IF waits = <<>> THEN 0
            ELSE Max(1, CeilSeconds(MinOf(waits)))

(* _key_wait_seconds_locked *)
KeyWaitSecondsLocked(entries, lim, now_ts) ==
    IF lim.rpm <= 0 \/ lim.rpd <= 0 THEN get_retry_after_seconds
    ELSE LET u == UsageForEntries(entries, now_ts)
             minute_wait ==
                 IF u.rpm_used >= lim.rpm /\ u.minute_events # <<>>
                 THEN LET release_index == Max(0, u.rpm_used - lim.rpm)
                          release_ts ==
                              u.minute_events[release_index + 1].ts + RpmWindow
                      IN <<Max(0, release_ts - now_ts)>>
                 ELSE <<>>
             day_wait ==
                 IF u.rpd_used >= lim.rpd /\ u.day_events # <<>>
                 THEN LET release_index == Max(0, u.rpd_used - lim.rpd)
                          release_ts ==
                              u.day_events[release_index + 1].ts + RpdWindow
                      IN <<Max(0, release_ts - now_ts)>>
                 ELSE <<>>
             waits == minute_wait \o day_wait
         IN IF waits = <<>> THEN 0
            ELSE Max(1, CeilSeconds(MaxOf(waits)))

(* fault: the daily limit is not looked at *)
IsKeyAvailableLocked_IgnoresRpd(entries, lim, now_ts) ==
    IF lim.rpm <= 0 THEN FALSE
    ELSE UsageForEntries(entries, now_ts).rpm_used < lim.rpm

(* fault: a key counts as available while its usage is at the limit *)
IsKeyAvailableLocked_AtLimit(entries, lim, now_ts) ==
    IF lim.rpm <= 0 \/ lim.rpd <= 0 THEN FALSE
    ELSE LET u == UsageForEntries(entries, now_ts)
         IN u.rpm_used <= lim.rpm /\ u.rpd_used <= lim.rpd

(* fault: a key counts as available only while one more slot than the    *)
(* request needs is left in each window                                  *)
IsKeyAvailableLocked_NeedsSpare(entries, lim, now_ts) ==
    IF lim.rpm <= 0 \/ lim.rpd <= 0 THEN FALSE
    ELSE LET u == UsageForEntries(entries, now_ts)
         IN u.rpm_used + 1 < lim.rpm /\ u.rpd_used + 1 < lim.rpd

(* _is_key_available_locked *)
IsKeyAvailableLocked(entries, lim, now_ts) ==
    IF lim.rpm <= 0 \/ lim.rpd <= 0 THEN FALSE
    ELSE LET u == UsageForEntries(entries, now_ts)
         IN u.rpm_used < lim.rpm /\ u.rpd_used < lim.rpd

(* _persist_locked: the document written to the state file *)
PersistLocked(ev, upd) == <<[events |-> ev, updated_at |-> upd]>>

(* fault: a loop that tries the key at start_index and no other *)
ReserveLoop_StartOnly(ev, offset, waits, model_bucket, keys, lim, start_index, now_ts, event_id) ==
    LET key_index == start_index % Len(keys)
        key_fingerprint == fingerprint_api_key(keys[key_index + 1])
        ev1 == EntriesLocked(ev, model_bucket, key_fingerprint)
        entries == ev1[model_bucket][key_fingerprint]
    IN IF IsKeyAvailableLocked(entries, lim, now_ts)
       THEN [events |->
                 DictSet(ev1, model_bucket,
                     DictSet(ev1[model_bucket], key_fingerprint,
                         Append(entries, [id |-> event_id, ts |-> now_ts]))),
             allocated |-> TRUE, key_index |-> key_index,
             key_fingerprint |-> key_fingerprint, waits |-> waits]
       ELSE [events |-> ev1, allocated |-> FALSE, key_index |-> -1,
             key_fingerprint |-> 0,
             waits |-> <<KeyWaitSecondsLocked(entries, lim, now_ts)>>]

(* The loop of reserve_key over the offsets 0 .. key_count - 1, from       *)
(* `offset` on: the events dict on leaving the loop, the allocation if a   *)
(* key was available, and the waits collected from the keys that were not. *)
RECURSIVE ReserveLoop(_, _, _, _, _, _, _, _, _)
ReserveLoop(ev, offset, waits, model_bucket, keys, lim, start_index, now_ts, event_id) ==
    IF offset >= Len(keys)
    THEN [events |-> ev, allocated |-> FALSE, key_index |-> -1,
          key_fingerprint |-> 0, waits |-> waits]
    ELSE LET key_count == Len(keys)
             key_index == (start_index + offset) % key_count
             api_key == keys[key_index + 1]
             key_fingerprint == fingerprint_api_key(api_key)
             ev1 == EntriesLocked(ev, model_bucket, key_fingerprint)
             entries == ev1[model_bucket][key_fingerprint]
         IN IF IsKeyAvailableLocked(entries, lim, now_ts)
            THEN [events |->
                      DictSet(ev1, model_bucket,
                          DictSet(ev1[model_bucket], key_fingerprint,
                              Append(entries, [id |-> event_id, ts |-> now_ts]))),
                  allocated |-> TRUE, key_index |-> key_index,
                  key_fingerprint |-> key_fingerprint, waits |-> waits]
            ELSE LET wait_seconds == KeyWaitSecondsLocked(entries, lim, now_ts)
                 IN ReserveLoop(ev1, offset + 1,
                        IF wait_seconds > 0 THEN Append(waits, wait_seconds)
                                            ELSE waits,
                        model_bucket, keys, lim, start_index, now_ts, event_id)

(* reserve_key: the new store state and the returned (allocation, retry)   *)
ReserveKey(ev, upd, dsk, model_bucket, keys, lim, start_index, now_ts, event_id) ==
    LET p == PruneLocked(ev, now_ts)
        upd1 == IF p.changed THEN now_iso(now_ts) ELSE upd
    IN IF keys = <<>>
       THEN [events |-> p.events, updated_at |-> upd1,
             disk |-> IF p.changed THEN PersistLocked(p.events, upd1) ELSE dsk,
             allocated |-> FALSE, key_index |-> -1, key_fingerprint |-> 0,
             retry_after |-> get_retry_after_seconds, changed |-> p.changed]
       ELSE LET r == ReserveLoop(p.events, 0, <<>>, model_bucket, keys, lim,
                                 start_index, now_ts, event_id)
            IN IF r.allocated
               THEN [events |-> r.events, updated_at |-> now_iso(now_ts),
                     disk |-> PersistLocked(r.events, now_iso(now_ts)),
                     allocated |-> TRUE, key_index |-> r.key_index,
                     key_fingerprint |-> r.key_fingerprint,
                     retry_after |-> 0, changed |-> p.changed]
               ELSE LET retry_after_seconds ==
                            IF r.waits # <<>> THEN MinOf(r.waits)
                            ELSE get_retry_after_seconds
                    IN [events |-> r.events, updated_at |-> upd1,
                        disk |-> IF p.changed THEN PersistLocked(r.events, upd1)
                                 ELSE dsk,
                        allocated |-> FALSE, key_index |-> -1,
                        key_fingerprint |-> 0,
                        retry_after |-> Max(1, retry_after_seconds),
                        changed |-> p.changed]

(* fault: a finalize that records the completion as one more event *)
FinalizeEntries_Duplicating(entries, event_id, now_ts) ==
    LET hits == {i \in DOMAIN entries : entries[i].id = event_id}
    IN IF hits = {} THEN [entries |-> entries, updated |-> FALSE]
       ELSE [entries |-> Append(entries, [id |-> event_id, ts |-> now_ts]),
             updated |-> TRUE]

(* fault: a finalize that leaves ts at the time of the reservation *)
FinalizeEntries_KeepsTs(entries, event_id, now_ts) ==
    [entries |-> entries,
     updated |-> \E i \in DOMAIN entries : entries[i].id = event_id]

(* fault: a finalize that sets ts to the completion time whatever it was *)
FinalizeEntries_ToNow(entries, event_id, now_ts) ==
    LET hits == {i \in DOMAIN entries : entries[i].id = event_id}
    IN IF hits = {} THEN [entries |-> entries, updated |-> FALSE]
       ELSE LET i == CHOOSE j \in hits : \A k \in hits : j <= k
            IN [entries |-> [entries EXCEPT ![i].ts = now_ts],
                updated |-> TRUE]

(* The loop of finalize_reservation: the first event with the              *)
(* reservation's id gets ts = max(ts, now)                                 *)
FinalizeEntries(entries, event_id, now_ts) ==
    LET hits == {i \in DOMAIN entries : entries[i].id = event_id}
    IN IF hits = {} THEN [entries |-> entries, updated |-> FALSE]
       ELSE LET i == CHOOSE j \in hits : \A k \in hits : j <= k
            IN [entries |->
                    [entries EXCEPT ![i].ts = Max(entries[i].ts, now_ts)],
                updated |-> TRUE]

(* fault: a ledger kept per key rather than per bucket and key: the         *)
(* completion is stamped on the events of the key in every bucket           *)
FinalizeReservation_StampsKeyEverywhere(ev, upd, dsk, reservation, now_ts) ==
    LET p == PruneLocked(ev, now_ts)
        f == reservation.key_fingerprint
        b0 == reservation.model_bucket
        own == IF b0 \in DOMAIN p.events /\ f \in DOMAIN p.events[b0]
               THEN p.events[b0][f] ELSE <<>>
        Stamp(entries) ==
            [i \in DOMAIN entries |->
                [entries[i] EXCEPT !.ts = Max(entries[i].ts, now_ts)]]
        ev2 == [b \in DOMAIN p.events |->
                   [g \in DOMAIN p.events[b] |->
                       IF g = f THEN Stamp(p.events[b][g])
                                ELSE p.events[b][g]]]
    IN [events |-> ev2, updated_at |-> now_iso(now_ts),
        disk |-> PersistLocked(ev2, now_iso(now_ts)),
        updated |-> \E i \in DOMAIN own : own[i].id = reservation.event_id,
        changed |-> p.changed]

(* fault: the new ts is written to the file only if the prune changed       *)
(* something as well                                                        *)
FinalizeReservation_PersistOnPruneOnly(ev, upd, dsk, reservation, now_ts) ==
    LET p == PruneLocked(ev, now_ts)
        b == reservation.model_bucket
        f == reservation.key_fingerprint
        ev1 == EntriesLocked(p.events, b, f)
        fin == FinalizeEntries(ev1[b][f], reservation.event_id, now_ts)
        ev2 == DictSet(ev1, b, DictSet(ev1[b], f, fin.entries))
        upd1 == IF fin.updated \/ p.changed THEN now_iso(now_ts) ELSE upd
    IN [events |-> ev2, updated_at |-> upd1,
        disk |-> IF p.changed THEN PersistLocked(ev2, upd1) ELSE dsk,
        updated |-> fin.updated, changed |-> p.changed]

(* finalize_reservation *)
FinalizeReservation(ev, upd, dsk, reservation, now_ts) ==
    LET p == PruneLocked(ev, now_ts)
        upd1 == IF p.changed THEN now_iso(now_ts) ELSE upd
        b == reservation.model_bucket
        f == reservation.key_fingerprint
        ev1 == EntriesLocked(p.events, b, f)
        fin == FinalizeEntries(ev1[b][f], reservation.event_id, now_ts)
        ev2 == DictSet(ev1, b, DictSet(ev1[b], f, fin.entries))
    IN IF fin.updated
       THEN [events |-> ev2, updated_at |-> now_iso(now_ts),
             disk |-> PersistLocked(ev2, now_iso(now_ts)),
             updated |-> TRUE, changed |-> p.changed]
       ELSE [events |-> ev2, updated_at |-> upd1,
             disk |-> IF p.changed THEN PersistLocked(ev2, upd1) ELSE dsk,
             updated |-> FALSE, changed |-> p.changed]

(* _load_state: the state built from the state file. Without a file, or    *)
(* with one that json.loads cannot read, the state is _empty_state; else    *)
(* the known buckets are kept, each list is sorted by ts, and empty lists   *)
(* and empty buckets are left out. Every                                    *)
(* event of a file written by _persist_locked has an id and a ts.           *)
LoadState(dsk, now_ts) ==
    IF dsk = <<>> \/ "torn" \in DOMAIN dsk[1]
    THEN [events |-> EmptyDict, updated_at |-> now_iso(now_ts)]
    ELSE LET raw == dsk[1].events
             normalized_bucket(b) ==
                 [f \in {g \in DOMAIN raw[b] : raw[b][g] # <<>>} |->
                     SortByTs(raw[b][f])]
             normalized_events ==
                 [b \in {c \in DOMAIN raw : /\ c \in MODEL_BUCKETS
                                            /\ DOMAIN normalized_bucket(c) # {}} |->
                     normalized_bucket(b)]
         IN [events |-> normalized_events, updated_at |-> dsk[1].updated_at]

(* The entries of (bucket, fingerprint), empty when the dict has none *)
EntriesOf(ev, bucket, key_fingerprint) ==
    EntriesLocked(ev, bucket, key_fingerprint)[bucket][key_fingerprint]

(* fault: the walk over the keys of a bucket drops the bucket *)
TouchKeys_DropsBucket(ev, bucket, keys) == DictDel(ev, bucket)

(* _entries_locked for every key of the pool, as the loops of snapshot do *)
RECURSIVE TouchKeys(_, _, _)
TouchKeys(ev, bucket, keys) ==
    IF keys = <<>> THEN ev
    ELSE TouchKeys(EntriesLocked(ev, bucket, fingerprint_api_key(Head(keys))),
                   bucket, Tail(keys))

RECURSIVE TouchBuckets(_, _, _)
TouchBuckets(ev, buckets, keys) ==
    IF buckets = {} THEN ev
    ELSE LET b == CHOOSE c \in buckets : TRUE
         IN TouchBuckets(TouchKeys(ev, b, keys), buckets \ {b}, keys)

(* fault: the total is the count of the first key *)
SumOf_Head(s) == IF s = <<>> THEN 0 ELSE Head(s)

RECURSIVE SumOf(_)
SumOf(s) == IF s = <<>> THEN 0 ELSE Head(s) + SumOf(Tail(s))

(* fault: a bucket is reported exhausted as soon as one key is not         *)
(* available, with the wait of that key                                     *)
SnapshotBucket_AnyKeyBlocked(ev, model_bucket, keys, lim, enabled, now_ts) ==
    LET ent(i) == EntriesOf(ev, model_bucket, fingerprint_api_key(keys[i]))
        blocked == {i \in DOMAIN keys : ~IsKeyAvailableLocked(ent(i), lim, now_ts)}
        blocked_waits == {KeyWaitSecondsLocked(ent(i), lim, now_ts) : i \in blocked}
    IN [rpm |-> [used |-> SumOf([i \in DOMAIN keys |->
                                    UsageForEntries(ent(i), now_ts).rpm_used]),
                 limit |-> Max(0, lim.rpm) * Len(keys)],
        rpd |-> [used |-> SumOf([i \in DOMAIN keys |->
                                    UsageForEntries(ent(i), now_ts).rpd_used]),
                 limit |-> Max(0, lim.rpd) * Len(keys)],
        exhausted |-> enabled /\ blocked # {},
        retry_after_seconds |->
            IF enabled /\ blocked # {}
            THEN CHOOSE w \in blocked_waits : \A x \in blocked_waits : w <= x
            ELSE 0]

(* snapshot: the report of one bucket *)
SnapshotBucket(ev, model_bucket, keys, lim, enabled, now_ts) ==
    LET ent(i) == EntriesOf(ev, model_bucket, fingerprint_api_key(keys[i]))
        rpm_total == Max(0, lim.rpm) * Len(keys)
        rpd_total == Max(0, lim.rpd) * Len(keys)
        rpm_used_total ==
            SumOf([i \in DOMAIN keys |-> UsageForEntries(ent(i), now_ts).rpm_used])
        rpd_used_total ==
            SumOf([i \in DOMAIN keys |-> UsageForEntries(ent(i), now_ts).rpd_used])
        any_key_available ==
            \E i \in DOMAIN keys : IsKeyAvailableLocked(ent(i), lim, now_ts)
        blocked(i) == ~IsKeyAvailableLocked(ent(i), lim, now_ts)
                      /\ KeyWaitSecondsLocked(ent(i), lim, now_ts) > 0
        blocked_waits ==
            {KeyWaitSecondsLocked(ent(i), lim, now_ts) :
                i \in {j \in DOMAIN keys : blocked(j)}}
        exhausted == enabled /\ keys # <<>> /\ ~any_key_available
        retry_after_seconds ==
            IF exhausted /\ blocked_waits # {}
            THEN CHOOSE w \in blocked_waits : \A x \in blocked_waits : w <= x
            ELSE 0
    IN [rpm |-> [used |-> rpm_used_total, limit |-> rpm_total],
        rpd |-> [used |-> rpd_used_total, limit |-> rpd_total],
        exhausted |-> exhausted,
        retry_after_seconds |-> retry_after_seconds]

(* snapshot *)
Snapshot(ev, upd, dsk, keys, limits_by_bucket, enabled, now_ts) ==
    LET p == PruneLocked(ev, now_ts)
        upd1 == IF p.changed THEN now_iso(now_ts) ELSE upd
    IN [events |-> TouchBuckets(p.events, MODEL_BUCKETS, keys),
        updated_at |-> upd1,
        disk |-> IF p.changed THEN PersistLocked(p.events, upd1) ELSE dsk,
        changed |-> p.changed,
        models |-> [b \in MODEL_BUCKETS |->
                       SnapshotBucket(p.events, b, keys, limits_by_bucket[b],
                                      enabled, now_ts)]]

-----------------------------------------------------------------------------
(* The state after construction: no state file, _empty_state, cursor 0 *)

NoOp ==
    [op |-> "none", bucket |-> "", start_index |-> 0, allocated |-> FALSE,
     key_index |-> -1, key_fingerprint |-> 0, event_id |-> 0,
     retry_after |-> 0, updated |-> FALSE]

NoTally == [n |-> 0, first |-> 0, counts |-> <<>>]

InitStore ==
    /\ now = 0
    /\ api_keys \in KeyPools
    /\ limits \in LimitConfigs
    /\ events = EmptyDict
    /\ updated_at = now_iso(0)
    /\ disk = <<>>
    /\ tmp_file = <<>>
    /\ cursor = 0
    /\ next_id = 0
    /\ issued = {}
    /\ last = NoOp
    /\ tally = NoTally

(* time.time() moves on *)
Tick ==
    /\ \E t \in TimePoints : t > now /\ now' = t
    /\ UNCHANGED <<api_keys, limits, runtime_on, events, updated_at, disk,
                   tmp_file, cursor, next_id, issued, last, req, tally>>

(* reserve_key run on the store: `cap` bounds the ids the model draws *)
ApplyReserve(model_bucket, start_index, cap) ==
    \E r \in {ReserveKey(events, updated_at, disk, model_bucket, api_keys,
                         limits[model_bucket], start_index, now, uuid4(next_id))} :
       /\ r.allocated => next_id < cap
       /\ events' = r.events
       /\ updated_at' = r.updated_at
       /\ disk' = r.disk
       /\ next_id' = IF r.allocated THEN next_id + 1 ELSE next_id
       /\ issued' = IF r.allocated
                    THEN issued \cup {[model_bucket |-> model_bucket,
                                       key_fingerprint |-> r.key_fingerprint,
                                       event_id |-> uuid4(next_id)]}
                    ELSE issued
       /\ last' = [NoOp EXCEPT !.op = "reserve",
                       !.bucket = model_bucket, !.start_index = start_index,
                       !.allocated = r.allocated, !.key_index = r.key_index,
                       !.key_fingerprint = r.key_fingerprint,
                       !.event_id = IF r.allocated THEN uuid4(next_id) ELSE 0,
                       !.retry_after = r.retry_after]

(* finalize_reservation run on the store *)
ApplyFinalize(reservation) ==
    \E r \in {FinalizeReservation(events, updated_at, disk, reservation, now)} :
       /\ events' = r.events
       /\ updated_at' = r.updated_at
       /\ disk' = r.disk
       /\ last' = [NoOp EXCEPT !.op = "finalize",
                       !.bucket = reservation.model_bucket,
                       !.key_fingerprint = reservation.key_fingerprint,
                       !.event_id = reservation.event_id,
                       !.updated = r.updated]

(* A call of RateLimitStore.reserve_key *)
StoreReserve(model_bucket, start_index) ==
    /\ ApplyReserve(model_bucket, start_index, MaxEvents)
    /\ UNCHANGED <<now, api_keys, limits, runtime_on, tmp_file, cursor, req,
                   tally>>

(* A call of RateLimitStore.finalize_reservation *)
StoreFinalize(reservation) ==
    /\ ApplyFinalize(reservation)
    /\ UNCHANGED <<now, api_keys, limits, runtime_on, tmp_file, cursor, next_id,
                   issued, req, tally>>

(* A call of RateLimitStore.snapshot *)
StoreSnapshot ==
    /\ \E r \in {Snapshot(events, updated_at, disk, api_keys, limits,
                          runtime_on /\ api_keys # <<>>, now)} :
          /\ events' = r.events
          /\ updated_at' = r.updated_at
          /\ disk' = r.disk
          /\ last' = [NoOp EXCEPT !.op = "snapshot"]
    /\ UNCHANGED <<now, api_keys, limits, runtime_on, tmp_file, cursor, next_id,
                   issued, req, tally>>

(* The start indexes reserve_key is called with: the caller passes the      *)
(* cursor reduced modulo the pool size, and 0 for an empty pool.            *)
StartIndexes == 0..Max(Len(api_keys) - 1, 0)

(* The store driven through its three public operations *)
Init ==
    /\ InitStore
    /\ runtime_on = TRUE
    /\ req = <<>>

Next ==
    \/ Tick
    \/ \E b \in MODEL_BUCKETS : \E s \in StartIndexes : StoreReserve(b, s)
    \/ \E r \in issued : StoreFinalize(r)
    \/ StoreSnapshot

Spec == Init /\ [][Next]_vars

(* time.time() is the wall clock of the host: it can be set back *)
ClockSetBack ==
    /\ \E t \in TimePoints : t < now /\ now' = t
    /\ UNCHANGED <<api_keys, limits, runtime_on, events, updated_at, disk,
                   tmp_file, cursor, next_id, issued, last, req, tally>>

(* The process is started again: the store is built from the state file,   *)
(* the reservations in flight are gone with the requests that held them     *)
StoreRestart ==
    /\ \E r \in {LoadState(disk, now)} :
          /\ events' = r.events
          /\ updated_at' = r.updated_at
    /\ issued' = {}
    /\ last' = [NoOp EXCEPT !.op = "load"]
    /\ UNCHANGED <<now, api_keys, limits, runtime_on, disk, tmp_file, cursor,
                   next_id, req, tally>>

(* The store of a pool of one key on its host: the clock may be set back   *)
(* and the process may be started again between any two operations          *)
InitHost ==
    /\ Init
    /\ Len(api_keys) = 1

NextHost ==
    \/ Next
    \/ ClockSetBack
    \/ StoreRestart

SpecHost == InitHost /\ [][NextHost]_vars

-----------------------------------------------------------------------------
(* Models and buckets *)

DEFAULT_MODEL == "gemini-2.5-flash-image"
DEFAULT_MODEL_PRO == "gemini-3-pro-image-preview"

get_vertex_model == DEFAULT_MODEL
get_vertex_model_pro == DEFAULT_MODEL_PRO
get_model_fallbacks == <<>>

(* get_gemini_rate_limit_runtime_enabled, from the enabled flag, the        *)
(* effective auth mode, the key profile and the key pool                    *)
get_gemini_rate_limit_runtime_enabled(flag, auth_mode, profile, keys) ==
    IF ~flag THEN FALSE
    ELSE IF auth_mode # "api_key" THEN FALSE
    ELSE IF profile # "gemini" THEN FALSE
    ELSE keys # <<>>

(* the `model` field of a request: absent (""), or a model id *)
PreferredModels == {"", DEFAULT_MODEL_PRO}

(* names as a caller can write them: with blanks around them, blank only,   *)
(* and a name that is neither of the configured ids                         *)
PaddedModel == " gemini-2.5-flash-image "
PaddedModelPro == " gemini-3-pro-image-preview "
ModelNames ==
    {"", " ", DEFAULT_MODEL, DEFAULT_MODEL_PRO, PaddedModel, PaddedModelPro,
     "GEMINI-3-PRO-IMAGE-PREVIEW", "imagen-4.0"}

(* str.strip() on these names *)
strip(name) ==
    CASE name = " " -> ""
      [] name = PaddedModel -> DEFAULT_MODEL
      [] name = PaddedModelPro -> DEFAULT_MODEL_PRO
      [] OTHER -> name

(* the loop of get_candidate_models: non-empty names in first-seen order *)
RECURSIVE Dedup(_, _)
Dedup(names, ordered) ==
    IF names = <<>> THEN ordered
    ELSE LET model_name == Head(names)
             seen == \E i \in DOMAIN ordered : ordered[i] = model_name
         IN Dedup(Tail(names),
                  IF model_name # "" /\ ~seen THEN Append(ordered, model_name)
                                              ELSE ordered)

get_candidate_models(preferred_model) ==
    Dedup(<<strip(preferred_model), strip(get_vertex_model)>> \o get_model_fallbacks,
          <<>>)

(* fault: every model is counted in the standard bucket *)
classify_model_bucket_AlwaysNano(model_name, preferred_model) == MODEL_BUCKET_NANO

(* fault: a request that prefers the premium model is counted as premium   *)
(* whatever model the call is made with                                     *)
classify_model_bucket_PreferredFirst(model_name, preferred_model) ==
    IF strip(preferred_model) = strip(get_vertex_model_pro) THEN MODEL_BUCKET_PRO
    ELSE IF strip(model_name) = strip(get_vertex_model_pro) THEN MODEL_BUCKET_PRO
    ELSE MODEL_BUCKET_NANO

classify_model_bucket(model_name, preferred_model) ==
    LET normalized == strip(model_name)
        base_model == strip(get_vertex_model)
        pro_model == strip(get_vertex_model_pro)
        preferred == strip(preferred_model)
    IN IF normalized # "" /\ normalized = pro_model THEN MODEL_BUCKET_PRO
       ELSE IF normalized # "" /\ normalized = base_model THEN MODEL_BUCKET_NANO
       ELSE IF preferred # "" /\ preferred = pro_model THEN MODEL_BUCKET_PRO
       ELSE MODEL_BUCKET_NANO

-----------------------------------------------------------------------------------------------------------------------------------------------------
(* The ledger as the claims read it *)

(* the events of (bucket, fingerprint), none when the dict has no entry *)
Ledger(ev, b, f) ==
    IF b \in DOMAIN ev /\ f \in DOMAIN ev[b] THEN ev[b][f] ELSE <<>>

(* how many events of a list have ts inside the window ending at t *)
InWindow(entries, t, window) ==
    Cardinality({i \in DOMAIN entries : entries[i].ts >= t - window})

(* key number i (from 0) of the pool may take one more event of bucket b at t *)
HasRoom(ev, b, i, t) ==
    LET entries == Ledger(ev, b, fingerprint_api_key(api_keys[i + 1]))
    IN /\ limits[b].rpm > 0
       /\ limits[b].rpd > 0
       /\ InWindow(entries, t, RpmWindow) < limits[b].rpm
       /\ InWindow(entries, t, RpdWindow) < limits[b].rpd

-----
(* Key scheduler and generation pipeline: one record per worker thread *)

NoReservation == [model_bucket |-> "", key_fingerprint |-> 0, event_id |-> 0]

Idle ==
    [pc |-> "idle", preferred |-> "", models |-> <<>>, i |-> 0, bucket |-> "",
     start_index |-> 0, allocated |-> FALSE, key_index |-> -1,
     retry_after |-> 0, reservation |-> NoReservation,
     got |-> {}, fin |-> <<>>, tried |-> <<>>, status |-> 0, retry |-> 0,
     model |-> ""]

(* The exceptions generate_content can raise, by what the two classifiers  *)
(* read: whether it is a ClientError that carries a response, the status    *)
(* code of that response, and whether the text of the error holds one of    *)
(* the access markers ("not found", "permission denied", ...) or one of the *)
(* quota markers ("resource_exhausted", "429")                              *)
NoError ==
    [client |-> FALSE, status_code |-> 0, access_marker |-> FALSE,
     quota_marker |-> FALSE]

UpstreamErrors ==
    { [NoError EXCEPT !.client = TRUE, !.status_code = 429],
      [NoError EXCEPT !.client = TRUE, !.status_code = 403,
                      !.access_marker = TRUE, !.quota_marker = TRUE],
      [NoError EXCEPT !.client = TRUE, !.status_code = 403],
      [NoError EXCEPT !.client = TRUE, !.status_code = 500,
                      !.access_marker = TRUE],
      [NoError EXCEPT !.access_marker = TRUE, !.quota_marker = TRUE],
      [NoError EXCEPT !.access_marker = TRUE],
      NoError }

(* fault: every error whose text holds an access marker counts as access *)
is_model_access_error_AnyMarker(error) == error.access_marker

is_model_access_error(error) ==
    IF error.client
    THEN IF error.status_code \in {400, 403, 404} THEN error.access_marker
         ELSE FALSE
    ELSE FALSE

(* fault: only the status code of a response tells a rate limit *)
is_rate_limit_error_StatusOnly(error) ==
    error.client /\ error.status_code = 429

is_rate_limit_error(error) ==
    IF error.client THEN error.status_code = 429
    ELSE error.quota_marker

(* what the upstream side of one candidate can do once a key is in hand:    *)
(* the handle or the config cannot be built, the call returns an image, a   *)
(* blocked response, a response without image or one whose image data       *)
(* cannot be decoded, or the call raises an error                           *)
Outcomes ==
    {[kind |-> k, error |-> NoError] :
        k \in {"client_error", "config_error", "image", "blocked", "no_image",
               "extract_error"}}
    \cup {[kind |-> "error", error |-> e] : e \in UpstreamErrors}

(* fault: the candidate after the next one is taken up *)
NextCandidate_SkipsOne(i) == i + 2

(* `continue` in the loop over the candidate models *)
NextCandidate(i) == i + 1

(* fault: the cursor moves one past start_index whatever key was taken *)
NextCursor_PastStart(start_index, allocated, key_index) == start_index + 1

(* fault: after an allocation the cursor stays on the key just taken *)
NextCursor_OnKeyTaken(start_index, allocated, key_index) ==
    IF allocated THEN key_index ELSE start_index + 1

(* the cursor written back by reserve_api_key_for_model after reserve_key *)
NextCursor(start_index, allocated, key_index) ==
    IF allocated THEN key_index + 1 ELSE start_index + 1

(* fault: the error carries the configured default, not the store's value *)
LocalRetryAfter_Default(retry_after_seconds) == get_retry_after_seconds

(* LocalRateLimitExceededError.retry_after_seconds *)
LocalRetryAfter(retry_after_seconds) == Max(1, retry_after_seconds)

Others == <<now, api_keys, limits, runtime_on, tmp_file>>
StoreVars == <<events, updated_at, disk, next_id, issued, last>>

(* generate_grid is entered by a free worker (one that has served no       *)
(* request yet or has sent its last response): the candidate list is built *)
Start(t, preferred) ==
    /\ req[t].pc \in {"idle", "done"}
    /\ req' = [req EXCEPT ![t] =
                  [Idle EXCEPT !.pc = "admit", !.preferred = preferred,
                               !.models = get_candidate_models(preferred),
                               !.i = 1]]
    /\ UNCHANGED <<Others, StoreVars, cursor, tally>>

(* fault: a pool without keys is answered like a pool without quota *)
Admit_EmptyPoolRefused(t) ==
    /\ req[t].pc = "admit"
    /\ api_keys = <<>>
    /\ req' = [req EXCEPT ![t].pc = "done", ![t].status = 429,
                          ![t].retry = get_retry_after_seconds]
    /\ UNCHANGED <<Others, StoreVars, cursor, tally>>

(* The head of the candidate loop, get_client and the start of              *)
(* reserve_api_key_for_model: with no candidate left the request ends 500,  *)
(* with an empty pool get_client raises, else the cursor is read.           *)
Admit(t) ==
    /\ req[t].pc = "admit"
    /\ IF req[t].i > Len(req[t].models) \/ api_keys = <<>>
       THEN req' = [req EXCEPT ![t].pc = "done", ![t].status = 500]
       ELSE req' = [req EXCEPT
                       ![t].pc = IF runtime_on THEN "reserve" ELSE "round_robin",
                       ![t].bucket = classify_model_bucket(req[t].models[req[t].i],
                                                           req[t].preferred),
                       ![t].start_index = cursor % Len(api_keys)]
    /\ UNCHANGED <<Others, StoreVars, cursor, tally>>


(* the observer of the scheduler: how many reservations the current run of *)
(* successful calls gave to each key, and the key the run started at. A    *)
(* run is made of consecutive calls of one thread that each found every    *)
(* key of the pool available.                                              *)
TallyAdd(tl, start_index, key_index) ==
    LET base == IF tl.n = 0
                THEN [n |-> 0, first |-> start_index,
                      counts |-> [i \in 1..Len(api_keys) |-> 0]]
                ELSE tl
    IN [n |-> base.n + 1, first |-> base.first,
        counts |-> [base.counts EXCEPT ![key_index + 1] = @ + 1]]

AllFree(b) == \A i \in 0..(Len(api_keys) - 1) : HasRoom(events, b, i, now)

(* reserve_api_key_for_model, rate limiting active: the call of reserve_key *)
SchedReserve(t) ==
    /\ req[t].pc = "reserve"
    /\ ApplyReserve(req[t].bucket, req[t].start_index,
                    IF Len(req) = 1 THEN MaxGrants ELSE MaxPipeGrants)
    /\ req' = [req EXCEPT
                  ![t].pc = "write",
                  ![t].allocated = last'.allocated,
                  ![t].key_index = last'.key_index,
                  ![t].retry_after = last'.retry_after,
                  ![t].reservation =
                      IF last'.allocated
                      THEN [model_bucket |-> req[t].bucket,
                            key_fingerprint |-> last'.key_fingerprint,
                            event_id |-> last'.event_id]
                      ELSE NoReservation]
    /\ tally' = IF Len(req) # 1 THEN tally
                ELSE IF last'.allocated /\ AllFree(req[t].bucket)
                     THEN TallyAdd(tally, req[t].start_index, last'.key_index)
                     ELSE NoTally
    /\ UNCHANGED <<Others, cursor>>

(* reserve_api_key_for_model, rate limiting active: the cursor is written   *)
(* back, and the call returns the reservation or raises                     *)
(* LocalRateLimitExceededError, which generate_grid turns into a 429        *)
SchedWrite(t) ==
    /\ req[t].pc = "write"
    /\ cursor' = NextCursor(req[t].start_index, req[t].allocated, req[t].key_index)
    /\ IF req[t].allocated
       THEN req' = [req EXCEPT ![t].pc = "upstream",
                               ![t].got = @ \cup {req[t].reservation}]
       ELSE req' = [req EXCEPT ![t].pc = "done", ![t].status = 429,
                               ![t].retry = LocalRetryAfter(req[t].retry_after)]
    /\ UNCHANGED <<Others, StoreVars, tally>>

(* fault: the key and the cursor are taken from the start index read when   *)
(* the call began                                                           *)
SchedRoundRobin_FromStart(t) ==
    /\ req[t].pc = "round_robin"
    /\ cursor' = req[t].start_index + 1
    /\ req' = [req EXCEPT ![t].pc = "upstream",
                          ![t].allocated = TRUE,
                          ![t].key_index = req[t].start_index]
    /\ tally' = tally
    /\ UNCHANGED <<Others, StoreVars>>

(* reserve_api_key_for_model, rate limiting not active: plain round robin *)
SchedRoundRobin(t) ==
    /\ req[t].pc = "round_robin"
    /\ cursor < MaxCursor
    /\ cursor' = cursor + 1
    /\ req' = [req EXCEPT ![t].pc = "upstream",
                          ![t].allocated = TRUE,
                          ![t].key_index = cursor % Len(api_keys)]
    /\ tally' = IF Len(req) # 1 THEN tally
                ELSE TallyAdd(tally, req[t].start_index, cursor % Len(api_keys))
    /\ UNCHANGED <<Others, StoreVars>>

(* finalize_rate_limit_reservation: nothing to do without a reservation *)
PipeFinalize(t) ==
    IF req[t].reservation = NoReservation
    THEN UNCHANGED StoreVars
    ELSE /\ ApplyFinalize(req[t].reservation)
         /\ UNCHANGED <<next_id, issued>>

Finalized(t) ==
    IF req[t].reservation = NoReservation THEN req[t].fin
    ELSE Append(req[t].fin, req[t].reservation)

(* The rest of one turn of the candidate loop: the handle and the config    *)
(* are built, generate_content is called, the reservation is finalized and  *)
(* the response is read or the error classified.                            *)
Upstream(t, outcome) ==
    /\ req[t].pc = "upstream"
    /\ IF outcome.kind \in {"client_error", "config_error"}
       THEN /\ req' = [req EXCEPT ![t].pc = "done", ![t].status = 500]
            /\ UNCHANGED StoreVars
       ELSE /\ req' = [req EXCEPT ![t] =
                  LET r == [req[t] EXCEPT
                               !.fin = Finalized(t),
                               !.tried = Append(@, req[t].models[req[t].i])]
                  IN CASE outcome.kind = "image" ->
                            [r EXCEPT !.pc = "done", !.status = 200,
                                      !.model = r.models[r.i]]
                       [] outcome.kind = "blocked" ->
                            [r EXCEPT !.pc = "done", !.status = 400]
                       [] outcome.kind = "no_image" ->
                            [r EXCEPT !.pc = "done", !.status = 502]
                       [] outcome.kind = "extract_error" ->
                            [r EXCEPT !.pc = "except"]
                       [] outcome.kind = "error" ->
                            IF is_rate_limit_error(outcome.error)
                            THEN [r EXCEPT !.pc = "done", !.status = 429,
                                           !.retry = get_retry_after_seconds]
                            ELSE IF is_model_access_error(outcome.error)
                            THEN [r EXCEPT !.pc = "admit",
                                           !.i = NextCandidate(@),
                                           !.allocated = FALSE,
                                           !.key_index = -1,
                                           !.reservation = NoReservation]
                            ELSE [r EXCEPT !.pc = "done", !.status = 500]]
            /\ PipeFinalize(t)
    /\ UNCHANGED <<Others, cursor, tally>>

(* An exception of extract_image_bytes_from_response that is no             *)
(* HTTPException lands in `except Exception`: the reservation is finalized  *)
(* again, the error is neither rate-limit nor access, the request ends 500  *)
Except(t) ==
    /\ req[t].pc = "except"
    /\ PipeFinalize(t)
    /\ req' = [req EXCEPT ![t].pc = "done", ![t].status = 500,
                          ![t].fin = Finalized(t)]
    /\ UNCHANGED <<Others, cursor, tally>>

Worker(t) ==
    \/ \E preferred \in PreferredModels : Start(t, preferred)
    \/ Admit(t)
    \/ SchedReserve(t)
    \/ SchedWrite(t)
    \/ SchedRoundRobin(t)
    \/ \E outcome \in Outcomes : Upstream(t, outcome)
    \/ Except(t)

(* One worker: requests are served one after the other *)
InitSeq ==
    /\ InitStore
    /\ runtime_on \in BOOLEAN
    /\ req = <<Idle>>

NextSeq ==
    \/ Tick
    \/ Worker(1)

SpecSeq == InitSeq /\ [][NextSeq]_vars

(* Two workers: requests are served concurrently *)
InitPipe ==
    /\ InitStore
    /\ runtime_on \in BOOLEAN
    /\ req = <<Idle, Idle>>

NextPipe == \E t \in DOMAIN req : Worker(t)

SpecPipe == InitPipe /\ [][NextPipe]_vars

-----------------------------------------------------------------------------
(* The same calls at the level of the two locks and of the two files: each  *)
(* thread runs one call of reserve_api_key_for_model, of                    *)
(* finalize_rate_limit_reservation or of get_gemini_rate_limit_status_payload *)
(* at a time, a `with` block is entered when its lock is free, and          *)
(* _persist_locked is the three steps of write_text and replace.            *)

state_path == <<"gemini_rate_limit_state", ".json">>

(* fault: the document is written to the state file itself *)
TmpPath_Target(path) == path

(* tmp_path: the state path with ".tmp" added to its suffix *)
TmpPath(path) == Append(path, ".tmp")

(* a file that write_text has opened and not yet written in full *)
Torn == <<[torn |-> TRUE]>>

LockIdle ==
    [pc |-> "idle", op |-> "", bucket |-> "", start_index |-> 0,
     reservation |-> NoReservation, now_ts |-> 0, changed |-> FALSE,
     offset |-> 0, waits |-> <<>>, allocated |-> FALSE, key_index |-> -1,
     key_fingerprint |-> 0, event_id |-> 0, retry_after |-> 0,
     updated |-> FALSE, ev0 |-> EmptyDict, upd0 |-> 0, dsk0 |-> <<>>]

(* fault: one `with` block around the whole of reserve_api_key_for_model *)
HoldsCursor_WholeCall(r) ==
    r.op = "reserve" /\ r.pc \notin {"idle", "want_cursor_read"}

(* the thread is inside a `with _api_key_round_robin_lock` block *)
HoldsCursor(r) == r.pc \in {"cursor_read", "cursor_write", "cursor_rr"}

(* the thread is at the head of such a block *)
WaitsCursor(r) ==
    r.pc \in {"want_cursor_read", "want_cursor_write", "want_cursor_rr"}

(* the thread is inside the `with self._lock` block of the store *)
HoldsStore(r) ==
    r.pc \in {"store_body", "store_append", "persist_open", "persist_write",
              "persist_replace", "store_exit"}

(* the thread is at the head of that block *)
WaitsStore(r) == r.pc = "want_store"

CursorLockFree == \A u \in DOMAIN req : ~HoldsCursor(req[u])

(* fault: a lock that lets every thread in *)
StoreLockFree_NoExclusion == TRUE

StoreLockFree == \A u \in DOMAIN req : ~HoldsStore(req[u])

LockFixed == <<now, api_keys, limits, runtime_on, last, tally>>

(* write_text on a path: the file at that path gets the content *)
FileWrite(path, content) ==
    /\ disk' = IF path = state_path THEN content ELSE disk
    /\ tmp_file' = IF path = state_path THEN tmp_file ELSE content

(* Path.replace: the file at `path` is moved onto the state file *)
FileReplace(path) ==
    IF path = state_path \/ tmp_file = <<>>
    THEN UNCHANGED <<disk, tmp_file>>
    ELSE disk' = tmp_file /\ tmp_file' = <<>>

(* A thread enters one of the three calls *)
LockCall(t) ==
    /\ req[t].pc = "idle"
    /\ \/ \E b \in MODEL_BUCKETS :
            /\ api_keys # <<>>
            /\ IF runtime_on
               THEN next_id + Cardinality({u \in DOMAIN req :
                                              req[u].op = "reserve"})
                        < IF Len(req) = 1 THEN MaxCrashGrants
                                          ELSE MaxPipeGrants
               ELSE cursor + Cardinality({u \in DOMAIN req :
                                              req[u].op = "reserve"}) < MaxCursor
            /\ req' = [req EXCEPT ![t] =
                          [LockIdle EXCEPT !.pc = "want_cursor_read",
                                           !.op = "reserve", !.bucket = b]]
       \/ \E r \in issued :
            req' = [req EXCEPT ![t] =
                       [LockIdle EXCEPT !.pc = "want_store", !.op = "finalize",
                                        !.bucket = r.model_bucket,
                                        !.reservation = r]]
       \/ req' = [req EXCEPT ![t] =
                     [LockIdle EXCEPT !.pc = "want_store", !.op = "snapshot"]]
    /\ UNCHANGED <<LockFixed, events, updated_at, disk, tmp_file, cursor,
                   next_id, issued>>

(* `with _api_key_round_robin_lock:` is entered *)
CursorAcquire(t) ==
    /\ WaitsCursor(req[t])
    /\ CursorLockFree
    /\ req' = [req EXCEPT ![t].pc =
                  CASE req[t].pc = "want_cursor_read" -> "cursor_read"
                    [] req[t].pc = "want_cursor_write" -> "cursor_write"
                    [] req[t].pc = "want_cursor_rr" -> "cursor_rr"]
    /\ UNCHANGED <<LockFixed, events, updated_at, disk, tmp_file, cursor,
                   next_id, issued>>

(* the start index is read and the block is left *)
CursorRead(t) ==
    /\ req[t].pc = "cursor_read"
    /\ req' = [req EXCEPT ![t].pc = IF runtime_on THEN "want_store"
                                                  ELSE "want_cursor_rr",
                          ![t].start_index = cursor % Len(api_keys)]
    /\ UNCHANGED <<LockFixed, events, updated_at, disk, tmp_file, cursor,
                   next_id, issued>>

(* the cursor is written back after reserve_key and the block is left: the  *)
(* call returns or raises                                                   *)
CursorWrite(t) ==
    /\ req[t].pc = "cursor_write"
    /\ cursor' = NextCursor(req[t].start_index, req[t].allocated,
                            req[t].key_index)
    /\ req' = [req EXCEPT ![t] = LockIdle]
    /\ UNCHANGED <<LockFixed, events, updated_at, disk, tmp_file, next_id,
                   issued>>

(* rate limiting not active: key and cursor in one block *)
CursorRoundRobin(t) ==
    /\ req[t].pc = "cursor_rr"
    /\ cursor' = cursor + 1
    /\ req' = [req EXCEPT ![t] = LockIdle]
    /\ UNCHANGED <<LockFixed, events, updated_at, disk, tmp_file, next_id,
                   issued>>

(* `with self._lock:` is entered, the clock is read, the ledger is pruned.  *)
(* ev0, upd0 and dsk0 remember the store as the call found it.              *)
StoreAcquire(t) ==
    /\ WaitsStore(req[t])
    /\ StoreLockFree
    /\ \E p \in {PruneLocked(events, now)} :
          /\ events' = p.events
          /\ updated_at' = IF p.changed THEN now_iso(now) ELSE updated_at
          /\ req' = [req EXCEPT
                        ![t].pc = IF req[t].op = "snapshot" /\ p.changed
                                  THEN "persist_open" ELSE "store_body",
                        ![t].now_ts = now, ![t].changed = p.changed,
                        ![t].ev0 = events, ![t].upd0 = updated_at,
                        ![t].dsk0 = disk]
    /\ UNCHANGED <<LockFixed, disk, tmp_file, cursor, next_id, issued>>

(* where a call goes when its work on the ledger is done *)
AfterBody(persist) == IF persist THEN "persist_open" ELSE "store_exit"

(* one turn of the loop of reserve_key, or the lines after the loop *)
StoreLoop(t) ==
    /\ req[t].pc = "store_body"
    /\ req[t].op = "reserve"
    /\ IF req[t].offset >= Len(api_keys)
       THEN /\ req' = [req EXCEPT
                          ![t].pc = AfterBody(req[t].changed),
                          ![t].retry_after =
                              Max(1, IF req[t].waits # <<>>
                                     THEN MinOf(req[t].waits)
                                     ELSE get_retry_after_seconds)]
            /\ UNCHANGED events
       ELSE LET key_index ==
                    (req[t].start_index + req[t].offset) % Len(api_keys)
                key_fingerprint == fingerprint_api_key(api_keys[key_index + 1])
                ev1 == EntriesLocked(events, req[t].bucket, key_fingerprint)
                entries == ev1[req[t].bucket][key_fingerprint]
                lim == limits[req[t].bucket]
                wait_seconds == KeyWaitSecondsLocked(entries, lim, req[t].now_ts)
            IN /\ events' = ev1
               /\ IF IsKeyAvailableLocked(entries, lim, req[t].now_ts)
                  THEN req' = [req EXCEPT
                                  ![t].pc = "store_append",
                                  ![t].allocated = TRUE,
                                  ![t].key_index = key_index,
                                  ![t].key_fingerprint = key_fingerprint]
                  ELSE req' = [req EXCEPT
                                  ![t].offset = @ + 1,
                                  ![t].waits = IF wait_seconds > 0
                                               THEN Append(@, wait_seconds)
                                               ELSE @]
    /\ UNCHANGED <<LockFixed, updated_at, disk, tmp_file, cursor, next_id,
                   issued>>

(* the event is appended to the list of the key that was found available *)
StoreAppend(t) ==
    /\ req[t].pc = "store_append"
    /\ LET b == req[t].bucket
           f == req[t].key_fingerprint
           ev1 == EntriesLocked(events, b, f)
       IN events' = DictSet(ev1, b, DictSet(ev1[b], f,
                        Append(ev1[b][f], [id |-> uuid4(next_id),
                                           ts |-> req[t].now_ts])))
    /\ updated_at' = now_iso(req[t].now_ts)
    /\ next_id' = next_id + 1
    /\ req' = [req EXCEPT ![t].pc = "persist_open",
                          ![t].event_id = uuid4(next_id),
                          ![t].reservation =
                              [model_bucket |-> req[t].bucket,
                               key_fingerprint |-> req[t].key_fingerprint,
                               event_id |-> uuid4(next_id)]]
    /\ UNCHANGED <<LockFixed, disk, tmp_file, cursor, issued>>

(* the loop of finalize_reservation and the lines after it *)
StoreFinalizeBody(t) ==
    /\ req[t].pc = "store_body"
    /\ req[t].op = "finalize"
    /\ LET b == req[t].reservation.model_bucket
           f == req[t].reservation.key_fingerprint
           ev1 == EntriesLocked(events, b, f)
           fin == FinalizeEntries(ev1[b][f], req[t].reservation.event_id,
                                  req[t].now_ts)
       IN /\ events' = DictSet(ev1, b, DictSet(ev1[b], f, fin.entries))
          /\ updated_at' = IF fin.updated THEN now_iso(req[t].now_ts)
                                          ELSE updated_at
          /\ req' = [req EXCEPT
                        ![t].pc = AfterBody(fin.updated \/ req[t].changed),
                        ![t].updated = fin.updated]
    /\ UNCHANGED <<LockFixed, disk, tmp_file, cursor, next_id, issued>>

(* the loops of snapshot over the buckets and the keys *)
StoreSnapshotBody(t) ==
    /\ req[t].pc = "store_body"
    /\ req[t].op = "snapshot"
    /\ events' = TouchBuckets(events, MODEL_BUCKETS, api_keys)
    /\ req' = [req EXCEPT ![t].pc = "store_exit"]
    /\ UNCHANGED <<LockFixed, updated_at, disk, tmp_file, cursor, next_id,
                   issued>>

(* _persist_locked, write_text: the file is opened for writing, which       *)
(* leaves it cut short until the document is written                        *)
PersistTruncate(t) ==
    /\ req[t].pc = "persist_open"
    /\ FileWrite(TmpPath(state_path), Torn)
    /\ req' = [req EXCEPT ![t].pc = "persist_write"]
    /\ UNCHANGED <<LockFixed, events, updated_at, cursor, next_id, issued>>

(* _persist_locked, write_text: the document is written and the file closed *)
PersistWrite(t) ==
    /\ req[t].pc = "persist_write"
    /\ FileWrite(TmpPath(state_path), PersistLocked(events, updated_at))
    /\ req' = [req EXCEPT ![t].pc = "persist_replace"]
    /\ UNCHANGED <<LockFixed, events, updated_at, cursor, next_id, issued>>

(* _persist_locked, replace: the file is moved onto the state file *)
PersistReplace(t) ==
    /\ req[t].pc = "persist_replace"
    /\ FileReplace(TmpPath(state_path))
    /\ req' = [req EXCEPT ![t].pc = IF req[t].op = "snapshot"
                                    THEN "store_body" ELSE "store_exit"]
    /\ UNCHANGED <<LockFixed, events, updated_at, cursor, next_id, issued>>

(* the `with self._lock` block is left and the store call returns *)
StoreRelease(t) ==
    /\ req[t].pc = "store_exit"
    /\ IF req[t].op = "reserve"
       THEN /\ req' = [req EXCEPT ![t] =
                          [LockIdle EXCEPT !.pc = "want_cursor_write",
                                           !.op = "reserve",
                                           !.bucket = req[t].bucket,
                                           !.start_index = req[t].start_index,
                                           !.allocated = req[t].allocated,
                                           !.key_index = req[t].key_index,
                                           !.retry_after = req[t].retry_after]]
            /\ issued' = IF req[t].allocated
                         THEN issued \cup {req[t].reservation} ELSE issued
       ELSE /\ req' = [req EXCEPT ![t] = LockIdle]
            /\ UNCHANGED issued
    /\ UNCHANGED <<LockFixed, events, updated_at, disk, tmp_file, cursor,
                   next_id>>

(* The process stops where it is and is started again: the threads and the  *)
(* locks are gone, the cursor is 0, the store is built from the state file, *)
(* and what was written beside it stays where it is                         *)
ProcessStops ==
    /\ \E r \in {LoadState(disk, now)} :
          /\ events' = r.events
          /\ updated_at' = r.updated_at
    /\ req' = [t \in DOMAIN req |-> LockIdle]
    /\ cursor' = 0
    /\ issued' = {}
    /\ UNCHANGED <<LockFixed, disk, tmp_file, next_id>>

LockStep(t) ==
    \/ CursorAcquire(t)
    \/ CursorRead(t)
    \/ CursorWrite(t)
    \/ CursorRoundRobin(t)
    \/ StoreAcquire(t)
    \/ StoreLoop(t)
    \/ StoreAppend(t)
    \/ StoreFinalizeBody(t)
    \/ StoreSnapshotBody(t)
    \/ PersistTruncate(t)
    \/ PersistWrite(t)
    \/ PersistReplace(t)
    \/ StoreRelease(t)

InitLock ==
    /\ InitStore
    /\ Len(api_keys) = 1
    /\ runtime_on \in BOOLEAN
    /\ req = <<LockIdle, LockIdle>>

(* the clock moves on while the calls run, within the first minute *)
TickWithinMinute == Tick /\ now' < RpmWindow

NextLock ==
    \/ TickWithinMinute
    \/ \E t \in DOMAIN req : LockCall(t)
    \/ \E t \in DOMAIN req : LockStep(t)

(* Two threads that run the calls concurrently *)
SpecLock == InitLock /\ [][NextLock]_vars

InitCrash ==
    /\ InitStore
    /\ api_keys # <<>>
    /\ runtime_on \in BOOLEAN
    /\ req = <<LockIdle>>

NextCrash ==
    \/ Tick
    \/ LockCall(1)
    \/ LockStep(1)
    \/ ProcessStops

(* One thread, and a process that may stop at any step and start again *)
SpecCrash == InitCrash /\ [][NextCrash]_vars

-----------------------------------------------------------------------------
(* What the claims speak of, stated on the ledger itself *)

(* the places (bucket, fingerprint, position) of a ledger that hold an event *)
Places(ev) ==
    UNION {UNION {{<<b, f, i>> : i \in DOMAIN ev[b][f]} : f \in DOMAIN ev[b]} :
           b \in DOMAIN ev}

(* the events of a ledger as (bucket, fingerprint, id) *)
Held(ev) == {<<p[1], p[2], ev[p[1]][p[2]][p[3]].id>> : p \in Places(ev)}

(* the events of a ledger that are no older than one day at t *)
Unexpired(ev, t) ==
    {<<p[1], p[2], ev[p[1]][p[2]][p[3]].id>> :
        p \in {q \in Places(ev) : ev[q[1]][q[2]][q[3]].ts >= t - RpdWindow}}

(* a step that is a call of one of the three public operations; the call   *)
(* leaves its arguments in `last`, which tells which call to look for      *)
ReserveStep ==
    /\ last'.op = "reserve"
    /\ last'.start_index \in StartIndexes
    /\ StoreReserve(last'.bucket, last'.start_index)

FinalizeStep ==
    /\ last'.op = "finalize"
    /\ \E r \in {[model_bucket |-> last'.bucket,
                   key_fingerprint |-> last'.key_fingerprint,
                   event_id |-> last'.event_id]} :
          r \in issued /\ StoreFinalize(r)

SnapshotStep == last'.op = "snapshot" /\ StoreSnapshot

PublicOp == ReserveStep \/ FinalizeStep \/ SnapshotStep

-----------------------------------------------------------------------------
(* C1: whenever reserve_key returns an allocation for key K in bucket B at  *)
(* time now, K's ledger for B held, just before the new event was appended, *)
(* fewer than rpm events with ts >= now - 60 and fewer than rpd events with *)
(* ts >= now - 86400, and both limits were > 0.                             *)
Thm_C1_AllocationHadRoom ==
    [][ReserveStep /\ last'.allocated
         => HasRoom(events, last'.bucket, last'.key_index, now)]_vars

(* a second event was admitted to a key that already held one *)
Wit_C1_SecondEventAdmitted ==
    /\ last.op = "reserve"
    /\ last.allocated
    /\ Len(Ledger(events, last.bucket, last.key_fingerprint)) = 2

(* C2: for a non-empty pool of k keys, reserve_key allocates the first      *)
(* available key in the cyclic order start_index, start_index + 1, ...      *)
(* (mod k), and returns null only when none of the k keys is available.     *)
Thm_C2_FirstAvailableInCyclicOrder ==
    [][ReserveStep /\ api_keys # <<>> =>
             LET k == Len(api_keys)
                 b == last'.bucket
                 s == last'.start_index
                 open == {off \in 0..(k - 1) : HasRoom(events, b, (s + off) % k, now)}
             IN /\ last'.allocated <=> open # {}
                /\ last'.allocated =>
                      \E off \in open :
                         /\ \A o \in open : off <= o
                         /\ last'.key_index = (s + off) % k
                         /\ last'.key_fingerprint =
                                fingerprint_api_key(api_keys[last'.key_index + 1])]_vars

(* the key tried first was full and the next one in the cycle was taken *)
Wit_C2_SkippedToNextKey ==
    /\ last.op = "reserve"
    /\ last.allocated
    /\ Len(api_keys) = 2
    /\ last.key_index # last.start_index % 2

(* every key of a pool of two was full and the call was refused *)
Wit_C2_RefusedWhenAllFull ==
    /\ last.op = "reserve"
    /\ ~last.allocated
    /\ Len(api_keys) = 2
    /\ limits[last.bucket].rpm > 0

(* C3: conservation: a reserve_key that returns an allocation followed by   *)
(* finalize_reservation of that allocation leaves exactly one event added   *)
(* to the ledger, in the allocated bucket and key, and a reserve_key that   *)
(* returns null adds none. Stated step by step: an allocating reserve_key   *)
(* adds exactly the new event to the unexpired events, a refused one and a  *)
(* finalize_reservation add nothing and remove nothing unexpired, and the   *)
(* finalized event is still held once.                                      *)
Thm_C3_Conservation ==
    [][LET new == <<last'.bucket, last'.key_fingerprint, last'.event_id>>
           before == Unexpired(events, now)
           after == Held(events')
           count == Cardinality(Places(events'))
       IN /\ ReserveStep =>
                IF last'.allocated
                THEN /\ new \notin Held(events)
                     /\ after = before \cup {new}
                     /\ count = Cardinality(before) + 1
                ELSE /\ after = before
                     /\ count = Cardinality(before)
          /\ FinalizeStep =>
                /\ after = before
                /\ count = Cardinality(before)
                /\ last'.updated <=> new \in before]_vars

(* a reservation was made and then finalized at a later instant *)
Wit_C3_ReservedThenFinalized ==
    /\ last.op = "finalize"
    /\ last.updated
    /\ now > 0
    /\ <<last.bucket, last.key_fingerprint, last.event_id>> \in Held(events)

(* C4: for every generate_grid request and every reservation it obtained     *)
(* from the scheduler, finalize_reservation is invoked exactly once for     *)
(* that reservation, whatever the terminal state of the request (failures   *)
(* of image extraction and of handle/config construction included).         *)
Cex_C4_FinalizedExactlyOnce ==
    \A t \in DOMAIN req :
        req[t].pc = "done" =>
            \A r \in req[t].got :
                Cardinality({i \in DOMAIN req[t].fin : req[t].fin[i] = r}) = 1

(* a step of thread t that ends a call of reserve_api_key_for_model made    *)
(* with a non-empty pool                                                    *)
CallEnds(t) ==
    /\ req[t].pc \in {"write", "round_robin"}
    /\ req'[t].pc # req[t].pc

(* C5 as stated: every call of reserve_api_key_for_model advances the       *)
(* round-robin cursor exactly once, allocation or refusal, in any sequence  *)
(* or interleaving of calls: when a call ends the cursor stands one         *)
(* position (mod pool size) past where it stood.                            *)
Cex_C5_CursorAdvancesByOne ==
    [][\A t \in DOMAIN req :
          CallEnds(t) =>
              cursor' % Len(api_keys) = (cursor + 1) % Len(api_keys)]_vars

(* C5 as the code has it: every call of reserve_api_key_for_model with a    *)
(* non-empty pool writes the cursor exactly once, as its last step: to      *)
(* key_index + 1 after an allocation, to start_index + 1 after a refusal    *)
(* (start_index being the cursor mod pool size read when the call began),   *)
(* and to cursor + 1 when rate limiting is not active; nothing else writes  *)
(* the cursor, and a call with an empty pool leaves it as it is.            *)
Thm_C5_CursorWrittenOncePerCall ==
    [][/\ \A t \in DOMAIN req :
             /\ CallEnds(t) /\ req[t].pc = "write" =>
                   cursor' = IF req[t].allocated THEN req[t].key_index + 1
                                                 ELSE req[t].start_index + 1
             /\ CallEnds(t) /\ req[t].pc = "round_robin" => cursor' = cursor + 1
             /\ req'[t].pc = "reserve" => req[t].pc \in {"admit", "reserve"}
             /\ req'[t].pc = "round_robin" => req[t].pc \in {"admit", "round_robin"}
             /\ req'[t].pc = "write" => req[t].pc \in {"reserve", "write"}
             /\ req[t].pc = "admit" /\ req'[t].pc \in {"reserve", "round_robin"} =>
                   req'[t].start_index = cursor % Len(api_keys)
       /\ cursor' # cursor => \E t \in DOMAIN req : CallEnds(t)
       /\ api_keys = <<>> => cursor' = cursor]_vars

(* two calls overlapped: the second read the cursor before the first wrote  *)
(* it, the first took the key both started at, the second skipped to the    *)
(* next key and has written the cursor two positions past its start         *)
Wit_C5_OverlappingCallsWroteCursor ==
    /\ Len(req) = 2
    /\ Len(api_keys) = 2
    /\ req[1].pc = "upstream" /\ req[2].pc = "upstream"
    /\ req[1].start_index = req[2].start_index
    /\ req[1].reservation # NoReservation /\ req[2].reservation # NoReservation
    /\ req[1].bucket = req[2].bucket
    /\ req[2].key_index # req[2].start_index
    /\ cursor = req[2].key_index + 1

(* C6: round-robin fairness: with k keys that are all available, n          *)
(* sequential successful reservations through reserve_api_key_for_model     *)
(* give exactly ceil(n/k) reservations to n mod k keys and floor(n/k) to    *)
(* the rest, the keys being visited consecutively from the prior cursor     *)
(* position.                                                                *)
Thm_C6_RoundRobinFairness ==
    tally.n > 0 =>
        LET k == Len(api_keys)
            n == tally.n
            q == n \div k
            r == n % k
            keys == 0..(k - 1)
        IN /\ \A j \in keys :
                 tally.counts[j + 1] =
                     Cardinality({i \in 0..(n - 1) : (tally.first + i) % k = j})
           /\ Cardinality({j \in keys : tally.counts[j + 1] = q + 1}) = r
           /\ Cardinality({j \in keys : tally.counts[j + 1] = q}) = k - r

(* three reservations in a row went to two keys that were all available:    *)
(* two to the key the run started at, one to the other                      *)
Wit_C6_ThreeOverTwoKeys ==
    /\ runtime_on
    /\ Len(api_keys) = 2
    /\ tally.n = 3
    /\ tally.counts[tally.first + 1] = 2

(* C7: quota enforcement: at every time, for every bucket and key, the      *)
(* number of ledger events of the last 60 s is at most the bucket's rpm and *)
(* the number of the last 86400 s is at most its rpd.                       *)
Cex_C7_QuotaNeverExceeded ==
    \A b \in MODEL_BUCKETS : \A f \in Fingerprints :
        /\ InWindow(Ledger(events, b, f), now, RpmWindow) <= limits[b].rpm
        /\ InWindow(Ledger(events, b, f), now, RpdWindow) <= limits[b].rpd

(* C8: order: the events within each (bucket, fingerprint) list are         *)
(* non-decreasing in ts in every reachable ledger state.                    *)
Cex_C8_EventsOrderedByTs ==
    \A b \in MODEL_BUCKETS : \A f \in Fingerprints :
        LET entries == Ledger(events, b, f)
        IN \A i \in DOMAIN entries : \A j \in DOMAIN entries :
               i < j => entries[i].ts <= entries[j].ts

(* C9: bounded age: immediately after any public store operation executed   *)
(* at time now, no event in the ledger has ts < now - 86400.                *)
Thm_C9_BoundedAge ==
    [][PublicOp =>
          \A p \in Places(events') :
              events'[p[1]][p[2]][p[3]].ts >= now - RpdWindow]_vars

(* both reservations were made on the first day, and an operation run a day *)
(* later has left no event behind                                           *)
Wit_C9_ExpiredEventsPruned ==
    /\ next_id = MaxEvents
    /\ now = RpdWindow + MaxOff
    /\ last.op = "snapshot"
    /\ Places(events) = {}

(* C10: in every ledger state reached after a public store operation, a    *)
(* fingerprint with zero events does not appear in its bucket submap, and a *)
(* bucket with no fingerprints does not appear in the events map.           *)
Cex_C10_NoEmptyEntries ==
    \A b \in DOMAIN events :
        /\ DOMAIN events[b] # {}
        /\ \A f \in DOMAIN events[b] : events[b][f] # <<>>

(* the ts of the event of (bucket, fingerprint) that carries the id *)
EventTs(ev, b, f, id) ==
    LET entries == Ledger(ev, b, f)
    IN entries[CHOOSE i \in DOMAIN entries : entries[i].id = id].ts

(* C11: finalize forward-only: finalize_reservation never decreases any     *)
(* event's ts; if the reservation's event is found its ts becomes           *)
(* max(old ts, now), and every other event's ts is unchanged.               *)
Thm_C11_FinalizeForwardOnly ==
    [][FinalizeStep =>
          \A p \in Places(events') :
              LET b == p[1]
                  f == p[2]
                  e == events'[b][f][p[3]]
                  old == EventTs(events, b, f, e.id)
                  target == /\ b = last'.bucket
                            /\ f = last'.key_fingerprint
                            /\ e.id = last'.event_id
              IN /\ <<b, f, e.id>> \in Held(events)
                 /\ e.ts >= old
                 /\ target => last'.updated
                 /\ e.ts = IF target THEN Max(old, now) ELSE old]_vars

(* the clock was set back after the reservation was made: the finalized    *)
(* event has kept its ts, which is later than the time of the finalize      *)
Wit_C11_LaterTsKept ==
    /\ last.op = "finalize"
    /\ last.updated
    /\ <<last.bucket, last.key_fingerprint, last.event_id>> \in Held(events)
    /\ EventTs(events, last.bucket, last.key_fingerprint, last.event_id) > now

(* C12: in every reachable ledger state, the ids of the reservation events *)
(* are unique within each (bucket, fingerprint) sequence, so                *)
(* finalize_reservation identifies at most one event.                       *)
Thm_C12_UniqueIds ==
    \A b \in DOMAIN events : \A f \in DOMAIN events[b] :
        \A i \in DOMAIN events[b][f] : \A j \in DOMAIN events[b][f] :
            events[b][f][i].id = events[b][f][j].id => i = j

(* a sequence of two events was loaded from the state file *)
Wit_C12_TwoEventsLoaded ==
    /\ last.op = "load"
    /\ \E b \in DOMAIN events : \E f \in DOMAIN events[b] :
           Len(events[b][f]) = 2

(* the wait_seconds of each key of the pool for a bucket, on a ledger *)
PoolWaits(ev, b, t) ==
    {KeyWaitSecondsLocked(Ledger(ev, b, fingerprint_api_key(api_keys[i])),
                          limits[b], t) : i \in DOMAIN api_keys}

(* C13: refusal honesty: whenever reserve_key returns null, either the key *)
(* pool is empty or at least one key of the pool has wait_seconds > 0 for   *)
(* the requested bucket at that time.                                       *)
Thm_C13_RefusalHonesty ==
    [][ReserveStep /\ ~last'.allocated =>
          \/ api_keys = <<>>
          \/ \E w \in PoolWaits(events', last'.bucket, now) : w > 0]_vars

(* a call was refused for a pool of one key whose limits are positive and   *)
(* whose minute window was full                                             *)
Wit_C13_RefusedByFullWindow ==
    /\ last.op = "reserve"
    /\ ~last.allocated
    /\ Len(api_keys) = 1
    /\ limits[last.bucket].rpm > 0
    /\ limits[last.bucket].rpd > 0
    /\ last.retry_after = RPM_WINDOW_SECONDS

(* C14: any Retry-After value returned by the service is >= 1: the          *)
(* retry_after of every refused reserve_key, of every                       *)
(* LocalRateLimitExceededError, and of both the local and the upstream 429  *)
(* responses of generate_grid.                                              *)
Thm_C14_RetryAfterAtLeastOne ==
    /\ \A raw \in RetryAfterSettings : ParseRetryAfter(raw) >= 1
    /\ get_retry_after_seconds >= 1
    /\ last.op = "reserve" /\ ~last.allocated => last.retry_after >= 1
    /\ \A t \in DOMAIN req :
          /\ req[t].pc = "write" /\ ~req[t].allocated =>
                LocalRetryAfter(req[t].retry_after) >= 1
          /\ req[t].pc = "done" /\ req[t].status = 429 => req[t].retry >= 1

(* a request was refused locally at the instant its key frees: the wait is  *)
(* zero seconds and the 429 response carries Retry-After 1                  *)
Wit_C14_LocalRefusalAtRelease ==
    /\ req # <<>>
    /\ req[1].pc = "done"
    /\ req[1].status = 429
    /\ req[1].retry = 1

(* C15: for a key that is unavailable at time now with rpm > 0 and rpd > 0, *)
(* wait_seconds returns the smallest non-negative integer w such that, if   *)
(* no event is added or finalized in between, the key is available          *)
(* (rpm_used < rpm and rpd_used < rpd) at time now + w. As time passes      *)
(* events only leave the windows, so w is the smallest such integer when    *)
(* the key is available at now + w and not at now + w - 1.                  *)
Cex_C15_WaitIsSmallestSufficient ==
    \A b \in MODEL_BUCKETS : \A i \in DOMAIN api_keys :
        LET entries == Ledger(events, b, fingerprint_api_key(api_keys[i]))
            lim == limits[b]
            w == KeyWaitSecondsLocked(entries, lim, now)
        IN lim.rpm > 0 /\ lim.rpd > 0 /\ ~IsKeyAvailableLocked(entries, lim, now) =>
              /\ w >= 0
              /\ IsKeyAvailableLocked(entries, lim, now + w * Resolution)
              /\ w > 0 => ~IsKeyAvailableLocked(entries, lim,
                                                now + (w - 1) * Resolution)

(* the smallest number of a non-empty set *)
SetMin(S) == CHOOSE x \in S : \A y \in S : x <= y

(* C16: when every key of a non-empty pool is exhausted, reserve_key        *)
(* returns null with retry_after equal to the minimum over the keys of      *)
(* their wait_seconds (the soonest any key frees), e.g. with two exhausted  *)
(* keys Retry-After = min(wait_1, wait_2).                                  *)
Thm_C16_RetryAfterIsMinWait ==
    [][ReserveStep /\ ~last'.allocated /\ api_keys # <<>> =>
          last'.retry_after = SetMin(PoolWaits(events', last'.bucket, now))]_vars

(* both keys of a pool of two were exhausted with different waits, the key *)
(* tried first having the longer one                                        *)
Wit_C16_TwoDifferentWaits ==
    /\ last.op = "reserve"
    /\ ~last.allocated
    /\ Len(api_keys) = 2
    /\ LET w(i) == KeyWaitSecondsLocked(
                       Ledger(events, last.bucket,
                              fingerprint_api_key(api_keys[i])),
                       limits[last.bucket], now)
       IN /\ w(last.start_index + 1) > w(2 - last.start_index)
          /\ last.retry_after = w(2 - last.start_index)

(* C17: when the scheduler raises LocalRateLimitExceeded for any candidate *)
(* of a request, generate_grid terminates immediately with HTTP 429 whose   *)
(* Retry-After is the exception's retry-after: it does not try any later    *)
(* candidate, makes no upstream call and creates no reservation for that    *)
(* candidate.                                                               *)
Thm_C17_LocalRefusalEndsRequest ==
    [][\A t \in DOMAIN req :
          /\ req[t].pc = "reserve" /\ req'[t].pc = "write" /\ ~req'[t].allocated =>
                /\ req'[t].reservation = NoReservation
                /\ req'[t].retry_after = last'.retry_after
                /\ issued' = issued
                /\ next_id' = next_id
                /\ Held(events') \subseteq Held(events)
          /\ req[t].pc = "write" /\ ~req[t].allocated /\ req'[t] # req[t] =>
                /\ req'[t].pc = "done"
                /\ req'[t].status = 429
                /\ req'[t].retry = Max(1, req[t].retry_after)
                /\ req'[t].i = req[t].i
                /\ req'[t].tried = req[t].tried
                /\ req'[t].got = req[t].got
                /\ req'[t].fin = req[t].fin
                /\ UNCHANGED StoreVars
          /\ req[t].pc = "done" /\ req'[t] # req[t] =>
                req'[t].pc = "admit" /\ req'[t].tried = <<>>]_vars

(* the second candidate of a request was refused locally with a wait of a   *)
(* minute, after the first had been tried upstream                          *)
Wit_C17_SecondCandidateRefused ==
    /\ Len(req) = 1
    /\ req[1].pc = "done"
    /\ req[1].status = 429
    /\ req[1].i = 2
    /\ Len(req[1].tried) = 1
    /\ req[1].reservation = NoReservation
    /\ req[1].retry = RPM_WINDOW_SECONDS

(* an error that generate_grid is to treat as access-denied: a ClientError  *)
(* with a response of status 400, 403 or 404 whose text holds an access     *)
(* marker                                                                   *)
AccessDenied(error) ==
    /\ error.client
    /\ error.status_code \in {400, 403, 404}
    /\ error.access_marker

(* an error that generate_grid is to treat as a rate limit: a ClientError   *)
(* with a response of status 429, or an error without response whose text   *)
(* holds a quota marker                                                     *)
RateLimited(error) ==
    \/ error.client /\ error.status_code = 429
    \/ ~error.client /\ error.quota_marker

(* C18: in the candidate loop of generate_grid, the request advances to the *)
(* next candidate model only after an upstream failure classified as        *)
(* access-denied; every other outcome of a candidate (success, rate-limit   *)
(* error, any other error, local rate-limit refusal, extraction failure) is *)
(* terminal for the request.                                                *)
Thm_C18_OnlyAccessDeniedAdvances ==
    [][\A t \in DOMAIN req :
          /\ \A o \in Outcomes :
                Upstream(t, o) =>
                    IF o.kind = "error" /\ AccessDenied(o.error)
                                       /\ ~RateLimited(o.error)
                    THEN /\ req'[t].pc = "admit"
                         /\ req'[t].i = req[t].i + 1
                         /\ req'[t].status = 0
                    ELSE /\ req'[t].pc \in {"done", "except"}
                         /\ req'[t].i = req[t].i
          /\ req[t].pc = "except" /\ req'[t] # req[t] =>
                req'[t].pc = "done" /\ req'[t].i = req[t].i
          /\ req[t].pc = "write" /\ ~req[t].allocated /\ req'[t] # req[t] =>
                req'[t].pc = "done" /\ req'[t].i = req[t].i
          /\ req'[t].i # req[t].i =>
                \/ req[t].pc \in {"idle", "done"}
                \/ \E o \in Outcomes :
                      o.kind = "error" /\ AccessDenied(o.error) /\ Upstream(t, o)]_vars

(* the first candidate failed with access-denied and the second one         *)
(* returned an image                                                        *)
Wit_C18_FellThroughToSecond ==
    /\ Len(req) = 1
    /\ req[1].pc = "done"
    /\ req[1].status = 200
    /\ req[1].i = 2
    /\ req[1].model = DEFAULT_MODEL
    /\ Len(req[1].tried) = 2

(* C19: when an upstream call fails, generate_grid first finalizes the      *)
(* reservation and then, if the error is classified as rate-limit, ends     *)
(* with HTTP 429 carrying the configured Retry-After, and if it is neither  *)
(* rate-limit nor access-denied ends with HTTP 500; rate-limit              *)
(* classification takes precedence over access classification.              *)
Thm_C19_UpstreamFailure ==
    [][\A t \in DOMAIN req : \A o \in Outcomes :
          o.kind = "error" /\ Upstream(t, o) =>
              LET r == req[t].reservation
                  e == <<r.model_bucket, r.key_fingerprint, r.event_id>>
              IN /\ IF r = NoReservation
                    THEN req'[t].fin = req[t].fin /\ UNCHANGED StoreVars
                    ELSE /\ req'[t].fin = Append(req[t].fin, r)
                         /\ last'.op = "finalize"
                         /\ last'.event_id = r.event_id
                         /\ e \in Unexpired(events, now) =>
                               EventTs(events', e[1], e[2], e[3]) =
                                   Max(EventTs(events, e[1], e[2], e[3]), now)
                 /\ RateLimited(o.error) =>
                       /\ req'[t].pc = "done"
                       /\ req'[t].status = 429
                       /\ req'[t].retry = DEFAULT_RETRY_AFTER_SECONDS
                 /\ ~RateLimited(o.error) /\ ~AccessDenied(o.error) =>
                       /\ req'[t].pc = "done"
                       /\ req'[t].status = 500
                 /\ \A x \in UpstreamErrors :
                       is_rate_limit_error(x) => ~is_model_access_error(x)]_vars

(* an upstream call made with a reservation failed with a rate-limit error: *)
(* the reservation was finalized at a later instant than it was made and    *)
(* the request ended 429                                                    *)
Wit_C19_UpstreamRateLimit ==
    /\ Len(req) = 1
    /\ req[1].pc = "done"
    /\ req[1].status = 429
    /\ req[1].reservation # NoReservation
    /\ req[1].fin # <<>>
    /\ last.op = "finalize"
    /\ last.updated
    /\ now > 0
    /\ EventTs(events, last.bucket, last.key_fingerprint, last.event_id) = now

(* the request has run out of candidates *)
Exhausted(t) ==
    /\ req[t].pc = "done"
    /\ req[t].status = 500
    /\ req[t].i > Len(req[t].models)

(* C20 as stated: if every candidate model of a request fails with an       *)
(* access-denied error, generate_grid ends with HTTP 500 after having tried *)
(* each candidate exactly once in list order, with one reservation made and *)
(* finalized per candidate.                                                 *)
Cex_C20_OneReservationPerCandidate ==
    \A t \in DOMAIN req :
        Exhausted(t) =>
            /\ req[t].tried = req[t].models
            /\ Cardinality(req[t].got) = Len(req[t].models)
            /\ Len(req[t].fin) = Len(req[t].models)
            /\ \A r \in req[t].got :
                  Cardinality({j \in DOMAIN req[t].fin : req[t].fin[j] = r}) = 1

(* C20 as the code has it: if every candidate model of a request fails with *)
(* an access-denied error, generate_grid ends with HTTP 500 after having    *)
(* tried each candidate exactly once in list order; when rate limiting is   *)
(* active one reservation was made and finalized per candidate, in the      *)
(* bucket of that candidate, and when it is not active no reservation was   *)
(* made or finalized.                                                       *)
Thm_C20_ExhaustedCandidates ==
    \A t \in DOMAIN req :
        Exhausted(t) =>
            /\ req[t].i = Len(req[t].models) + 1
            /\ req[t].tried = req[t].models
            /\ IF runtime_on
               THEN /\ Cardinality(req[t].got) = Len(req[t].models)
                    /\ Len(req[t].fin) = Len(req[t].models)
                    /\ \A j \in DOMAIN req[t].fin :
                          /\ req[t].fin[j] \in req[t].got
                          /\ req[t].fin[j].model_bucket =
                                 classify_model_bucket(req[t].models[j],
                                                       req[t].preferred)
                    /\ \A j \in DOMAIN req[t].fin : \A k \in DOMAIN req[t].fin :
                          req[t].fin[j] = req[t].fin[k] => j = k
               ELSE req[t].got = {} /\ req[t].fin = <<>>

(* both candidates of a request were tried with a reservation each and      *)
(* both failed with access-denied                                           *)
Wit_C20_BothCandidatesDenied ==
    /\ Len(req) = 1
    /\ runtime_on
    /\ Exhausted(1)
    /\ Len(req[1].models) = 2
    /\ Cardinality(req[1].got) = 2

(* C21: when rate-limit runtime is not active (flag disabled, effective     *)
(* auth not api_key, or profile not the developer profile) and the pool is  *)
(* non-empty, reserve_api_key_for_model returns key[cursor mod k] with a    *)
(* null reservation, increments the cursor by one, and never reads or       *)
(* changes the ledger.                                                      *)
Thm_C21_InactiveRoundRobin ==
    [][/\ \A t \in DOMAIN req :
             /\ req[t].pc = "round_robin" /\ req'[t] # req[t] =>
                   /\ ~runtime_on
                   /\ api_keys # <<>>
                   /\ req'[t].pc = "upstream"
                   /\ req'[t].allocated
                   /\ req'[t].key_index = cursor % Len(api_keys)
                   /\ req'[t].reservation = NoReservation
                   /\ req'[t].got = req[t].got
                   /\ cursor' = cursor + 1
             /\ req[t].pc = "admit" /\ req'[t].pc \in {"reserve", "write"} =>
                   runtime_on
       /\ ~runtime_on => UNCHANGED StoreVars
       /\ \A flag \in BOOLEAN : \A auth_mode \in {"api_key", "adc"} :
             \A profile \in {"gemini", "aistudio"} :
                ~(flag /\ auth_mode = "api_key" /\ profile = "gemini") =>
                    ~get_gemini_rate_limit_runtime_enabled(flag, auth_mode,
                                                           profile, api_keys)]_vars

(* two calls overlapped with rate limiting not active: both read the same  *)
(* start index, and they were handed the two keys of the pool one after the *)
(* other, the cursor having moved by two                                    *)
Wit_C21_OverlappingCallsTookTurns ==
    /\ ~runtime_on
    /\ Len(req) = 2
    /\ Len(api_keys) = 2
    /\ req[1].pc = "upstream" /\ req[2].pc = "upstream"
    /\ req[1].start_index = req[2].start_index
    /\ req[1].key_index # req[2].key_index
    /\ req[1].reservation = NoReservation
    /\ cursor = 2

(* how many events of bucket b the keys of the pool hold inside the window  *)
(* ending at t                                                              *)
PoolUsed(ev, b, t, window) ==
    Cardinality(
        {p \in Places(ev) :
            /\ p[1] = b
            /\ \E i \in DOMAIN api_keys : p[2] = fingerprint_api_key(api_keys[i])
            /\ ev[p[1]][p[2]][p[3]].ts >= t - window})

(* C22: for each bucket, snapshot reports rpm.limit = rpm x pool size and   *)
(* rpd.limit = rpd x pool size, rpm.used and rpd.used as the sums of the    *)
(* per-key window counts, exhausted = enabled AND pool non-empty AND no key *)
(* available, and retry_after_seconds = min of the unavailable keys'        *)
(* wait_seconds when exhausted and otherwise 0. Stated of the snapshot      *)
(* taken in any reachable state of the store, for either value of enabled.  *)
Thm_C22_SnapshotReport ==
    \A enabled \in BOOLEAN : \A b \in MODEL_BUCKETS :
        LET m == Snapshot(events, updated_at, disk, api_keys, limits, enabled,
                          now).models[b]
            k == Len(api_keys)
            exhausted ==
                /\ enabled
                /\ k > 0
                /\ \A i \in 0..(k - 1) : ~HasRoom(events, b, i, now)
        IN /\ m.rpm.limit = limits[b].rpm * k
           /\ m.rpd.limit = limits[b].rpd * k
           /\ m.rpm.used = PoolUsed(events, b, now, RpmWindow)
           /\ m.rpd.used = PoolUsed(events, b, now, RpdWindow)
           /\ m.exhausted = exhausted
           /\ m.retry_after_seconds =
                 IF exhausted THEN SetMin(PoolWaits(events, b, now)) ELSE 0

(* a snapshot was taken of a pool of two keys that each held one event of a *)
(* bucket whose rpm is 1: the bucket is exhausted with rpm used 2 of 2      *)
Wit_C22_ExhaustedPoolOfTwo ==
    /\ last.op = "snapshot"
    /\ Len(api_keys) = 2
    /\ \E b \in MODEL_BUCKETS :
          /\ limits[b].rpm = 1
          /\ PoolUsed(events, b, now, RpmWindow) = 2
          /\ Snapshot(events, updated_at, disk, api_keys, limits, TRUE,
                      now).models[b].exhausted

(* the events of (bucket, fingerprint) that are no older than one day at t, *)
(* in the order of the list                                                 *)
FreshEntries(ev, b, f, t) ==
    LET Fresh(entry) == entry.ts >= t - RpdWindow
    IN SelectSeq(Ledger(ev, b, f), Fresh)

(* C23: snapshot is a read-only, pure function of the pruned ledger and the *)
(* configured limits: it adds, removes and modifies no unexpired event, and *)
(* two snapshots taken with the same pruned ledger contents, keys, limits   *)
(* and time return the same per-bucket result. In a step that is a          *)
(* snapshot, every list of the ledger is afterwards the list of its         *)
(* unexpired events as it was, and for each bucket the report computed from *)
(* the ledger it left is the report it computed from the pruned ledger.     *)
Thm_C23_SnapshotReadOnly ==
    [][SnapshotStep =>
          /\ \A b \in MODEL_BUCKETS : \A f \in Fingerprints :
                Ledger(events', b, f) = FreshEntries(events, b, f, now)
          /\ \A pruned \in {PruneLocked(events, now).events} :
                \A b \in MODEL_BUCKETS :
                   SnapshotBucket(events', b, api_keys, limits[b], TRUE, now)
                     = SnapshotBucket(pruned, b, api_keys, limits[b], TRUE, now)]_vars

(* a snapshot was taken of a ledger that holds an event: it has left an     *)
(* empty list for a key without events next to it                           *)
Wit_C23_SnapshotOfHeldEvent ==
    /\ last.op = "snapshot"
    /\ Places(events) # {}
    /\ \E b \in DOMAIN events : \E f \in DOMAIN events[b] : events[b][f] = <<>>

(* limits with a zero in them *)
ZeroLimits ==
    {[rpm |-> 0, rpd |-> 1], [rpm |-> 1, rpd |-> 0], [rpm |-> 0, rpd |-> 0]}

(* C24: if a bucket's rpm or rpd limit is zero, every reserve_key for that  *)
(* bucket is refused (returns null) whatever the ledger contents, adds no   *)
(* event, and returns the configured default retry_after. Stated of every   *)
(* call of reserve_key made for a bucket whose configured limits hold a     *)
(* zero, and of the same call made with each of the limits that hold one.   *)
Thm_C24_ZeroLimitRefuses ==
    [][ReserveStep =>
          /\ limits[last'.bucket].rpm = 0 \/ limits[last'.bucket].rpd = 0 =>
                /\ ~last'.allocated
                /\ last'.retry_after = DEFAULT_RETRY_AFTER_SECONDS
                /\ next_id' = next_id
                /\ issued' = issued
                /\ Held(events') = Unexpired(events, now)
          /\ \A lim \in ZeroLimits :
                \A r \in {ReserveKey(events, updated_at, disk, last'.bucket,
                                     api_keys, lim, last'.start_index, now,
                                     uuid4(next_id))} :
                   /\ ~r.allocated
                   /\ r.retry_after = DEFAULT_RETRY_AFTER_SECONDS
                   /\ Held(r.events) = Unexpired(events, now)]_vars

(* a call for a bucket whose rpm is 0 was refused with the default wait     *)
(* while the ledger held an event of another bucket                         *)
Wit_C24_RefusedForZeroRpm ==
    /\ last.op = "reserve"
    /\ ~last.allocated
    /\ api_keys # <<>>
    /\ limits[last.bucket].rpm = 0
    /\ last.retry_after = DEFAULT_RETRY_AFTER_SECONDS
    /\ Places(events) # {}

(* the thread waits for a lock that another thread holds *)
Blocked(t) ==
    \/ WaitsCursor(req[t]) /\ ~CursorLockFree
    \/ WaitsStore(req[t]) /\ ~StoreLockFree

(* C25: no thread ever holds the cursor lock while it calls the store       *)
(* (holds or waits for the store lock), so no reachable state of            *)
(* concurrently running reserve_api_key_for_model, finalize_reservation and *)
(* snapshot calls is a deadlock: whenever a call is under way some thread   *)
(* can take its next step, and a thread that holds a lock is never one that *)
(* waits for a lock.                                                        *)
Thm_C25_LockOrderNoDeadlock ==
    /\ \A t \in DOMAIN req :
          HoldsCursor(req[t]) => ~WaitsStore(req[t]) /\ ~HoldsStore(req[t])
    /\ \A t \in DOMAIN req :
          HoldsCursor(req[t]) \/ HoldsStore(req[t]) => ~Blocked(t)
    /\ (\E t \in DOMAIN req : req[t].pc # "idle") =>
          ENABLED (\E t \in DOMAIN req : LockStep(t))

(* a reservation waits at the store lock while a snapshot holds it *)
Wit_C25_WaitingAtStoreLock ==
    \E t, u \in DOMAIN req :
       /\ req[t].op = "reserve" /\ WaitsStore(req[t])
       /\ req[u].op = "snapshot" /\ HoldsStore(req[u])

(* what a call that has done its work under the store lock leaves and       *)
(* returns is what the operation gives when run in one piece on the store   *)
(* as the call found it                                                     *)
AsOnePiece(r) ==
    CASE r.op = "reserve" ->
           LET a == ReserveKey(r.ev0, r.upd0, r.dsk0, r.bucket, api_keys,
                               limits[r.bucket], r.start_index, r.now_ts,
                               IF r.allocated THEN r.event_id ELSE uuid4(next_id))
           IN /\ events = a.events /\ updated_at = a.updated_at /\ disk = a.disk
              /\ r.allocated = a.allocated
              /\ r.key_index = a.key_index
              /\ r.key_fingerprint = a.key_fingerprint
              /\ r.retry_after = a.retry_after
      [] r.op = "finalize" ->
           LET a == FinalizeReservation(r.ev0, r.upd0, r.dsk0, r.reservation,
                                        r.now_ts)
           IN /\ events = a.events /\ updated_at = a.updated_at /\ disk = a.disk
              /\ r.updated = a.updated
      [] r.op = "snapshot" ->
           LET a == Snapshot(r.ev0, r.upd0, r.dsk0, api_keys, limits,
                             runtime_on, r.now_ts)
           IN events = a.events /\ updated_at = a.updated_at /\ disk = a.disk

(* C26: under any interleaving of concurrent requests, reserve_key,         *)
(* finalize_reservation and snapshot each execute atomically under the      *)
(* single store lock: at most one thread is inside the lock, every call     *)
(* leaves the lock with the store and the result that the operation run in  *)
(* one piece gives, and the key a reservation appends to still has room     *)
(* when the event is appended, so two concurrent reservations never both    *)
(* take the last free slot of a key.                                        *)
Thm_C26_StoreOpsAtomic ==
    /\ Cardinality({t \in DOMAIN req : HoldsStore(req[t])}) <= 1
    /\ \A t \in DOMAIN req :
          req[t].pc = "store_append" =>
             IsKeyAvailableLocked(
                 EntriesOf(events, req[t].bucket, req[t].key_fingerprint),
                 limits[req[t].bucket], req[t].now_ts)
    /\ \A t \in DOMAIN req : req[t].pc = "store_exit" => AsOnePiece(req[t])

(* two reservations ran concurrently for a key with one free slot: one took *)
(* it and is about to leave the lock, the other waits at the lock           *)
Wit_C26_RaceForLastSlot ==
    \E t, u \in DOMAIN req :
       /\ Len(api_keys) = 1
       /\ req[t].op = "reserve" /\ req[t].pc = "store_exit" /\ req[t].allocated
       /\ limits[req[t].bucket].rpm = 1
       /\ req[u].op = "reserve" /\ WaitsStore(req[u])
       /\ req[u].bucket = req[t].bucket

(* the file exists and holds less than a whole document *)
IsTorn(file) == file # <<>> /\ "torn" \in DOMAIN file[1]

(* C27: at every instant, including between the temp-file write and the     *)
(* rename of _persist_locked and if the process stops at any step of it,    *)
(* the state file at the target path holds either the complete previously   *)
(* persisted document or the complete new one, never a partial write: no    *)
(* step leaves the state file torn, and a step that changes it is the       *)
(* rename, which puts the whole document of the store in its place.         *)
Thm_C27_AtomicPersist ==
    [][/\ ~IsTorn(disk')
       /\ disk' # disk =>
             /\ \E t \in DOMAIN req : req[t].pc = "persist_replace"
             /\ disk' = PersistLocked(events, updated_at)]_vars

(* the process stopped while the new document was being written: the file   *)
(* beside the state file is cut short, the state file holds the document    *)
(* persisted before, and the store was built again from it                  *)
Wit_C27_StoppedInsideWrite ==
    /\ IsTorn(tmp_file)
    /\ req[1].pc = "idle"
    /\ disk # <<>>
    /\ Places(disk[1].events) # {}
    /\ events = LoadState(disk, now).events

(* C28: persistence round-trip: for every ledger L reachable by             *)
(* reserve_key, finalize_reservation and snapshot, loading the document     *)
(* written by _persist_locked yields a ledger equal to L modulo pruning of  *)
(* expired events (same buckets, fingerprints, event ids, ts and order).    *)
Cex_C28_PersistRoundTrip ==
    LET loaded == LoadState(PersistLocked(events, updated_at), now).events
    IN \A b \in MODEL_BUCKETS : \A f \in Fingerprints :
          FreshEntries(loaded, b, f, now) = FreshEntries(events, b, f, now)

(* the ledger without the event `id` of (b, f) *)
WithoutEvent(ev, b, f, id) ==
    LET Other(e) == e.id # id
    IN DictSet(ev, b, DictSet(ev[b], f, SelectSeq(ev[b][f], Other)))

(* rpm.used of bucket b in a snapshot of ledger ev taken at t *)
RpmUsedAt(ev, b, t) ==
    SnapshotBucket(ev, b, api_keys, limits[b], TRUE, t).rpm.used

(* what the list `entries` adds to rpm_used at t *)
RpmCount(entries, t) == UsageForEntries(entries, t).rpm_used

(* C29: an event finalized at time F counts in rpm_used for every snapshot  *)
(* at time t with F <= t <= F + 60 and does not count for t > F + 60,        *)
(* irrespective of when it was reserved. Stated of the ledger that a         *)
(* finalization at F = now leaves: the event has ts = F, and its list adds   *)
(* to rpm_used one more than the list without the event at F, at F + 60 and  *)
(* at the instants between, and the same as it one tick after F + 60 and     *)
(* later.                                                                    *)
Thm_C29_FinalizedCountsForAMinute ==
    [][FinalizeStep /\ last'.updated =>
          LET b == last'.bucket
              f == last'.key_fingerprint
              id == last'.event_id
              rest == WithoutEvent(events', b, f, id)[b][f]
          IN /\ EventTs(events', b, f, id) = now
             /\ \A t \in {now, now + 1, now + RpmWindow} :
                   RpmCount(events'[b][f], t) = RpmCount(rest, t) + 1
             /\ \A t \in {now + RpmWindow + 1, now + 2 * RpmWindow} :
                   RpmCount(events'[b][f], t) = RpmCount(rest, t)]_vars

(* an event reserved in the first second was finalized a minute later and   *)
(* is the one event that a snapshot taken then counts                       *)
Wit_C29_FinalizedAMinuteLater ==
    /\ last.op = "finalize"
    /\ last.updated
    /\ now = RpmWindow + MaxOff
    /\ EventTs(events, last.bucket, last.key_fingerprint, last.event_id) = now
    /\ RpmUsedAt(events, last.bucket, now) = 1
    /\ RpmUsedAt(events, last.bucket, now + RpmWindow) = 1
    /\ RpmUsedAt(events, last.bucket, now + RpmWindow + 1) = 0

(* the request had the candidates [premium, standard], went on from the     *)
(* first to the second, which only an access-denied error of the upstream   *)
(* call does, and ended 200                                                 *)
FellBackToStandard(t) ==
    /\ req[t].pc = "done"
    /\ req[t].status = 200
    /\ req[t].models = <<get_vertex_model_pro, get_vertex_model>>
    /\ req[t].i = 2

(* C30 as stated: with candidates [premium, standard], when the premium     *)
(* upstream call fails with access-denied and the standard call returns an  *)
(* image, the request ends 200 with model = standard and the ledger has     *)
(* gained exactly one finalized event in the premium bucket and exactly one *)
(* in the standard bucket.                                                  *)
Cex_C30_OneEventPerBucket ==
    \A t \in DOMAIN req :
        FellBackToStandard(t) =>
            /\ req[t].model = get_vertex_model
            /\ \A b \in MODEL_BUCKETS :
                  /\ Cardinality({r \in req[t].got : r.model_bucket = b}) = 1
                  /\ Cardinality({j \in DOMAIN req[t].fin :
                                     req[t].fin[j].model_bucket = b}) = 1

(* C30 as the code has it: such a request ends 200 with model = standard    *)
(* after one upstream call per candidate; when rate limiting is active it   *)
(* made and finalized exactly one reservation in the premium bucket and     *)
(* then exactly one in the standard bucket, and both events are in the      *)
(* ledger unless a day has passed; when it is not active it made and        *)
(* finalized none.                                                          *)
Thm_C30_FallbackToStandard ==
    \A t \in DOMAIN req :
        FellBackToStandard(t) =>
            /\ req[t].model = get_vertex_model
            /\ req[t].tried = req[t].models
            /\ IF runtime_on
               THEN /\ Len(req[t].fin) = 2
                    /\ req[t].got = {req[t].fin[1], req[t].fin[2]}
                    /\ req[t].fin[1].model_bucket = MODEL_BUCKET_PRO
                    /\ req[t].fin[2].model_bucket = MODEL_BUCKET_NANO
                    /\ \A j \in 1..2 :
                          \/ now >= RpdWindow
                          \/ <<req[t].fin[j].model_bucket,
                                req[t].fin[j].key_fingerprint,
                                req[t].fin[j].event_id>> \in Held(events)
               ELSE req[t].got = {} /\ req[t].fin = <<>>

(* a request fell back from the premium to the standard model with rate     *)
(* limiting active and left one event in each bucket                        *)
Wit_C30_OneEventInEachBucket ==
    /\ Len(req) = 1
    /\ runtime_on
    /\ FellBackToStandard(1)
    /\ \A b \in MODEL_BUCKETS :
          Cardinality({h \in Held(events) : h[1] = b}) = 1

(* C31: with an empty key pool and rate limiting enabled in api-key auth    *)
(* mode, generate_grid ends with HTTP 500 (configuration error), sends      *)
(* nothing upstream, and changes neither the ledger nor the scheduler       *)
(* cursor. With such a configuration the ledger, the state file, the ids,   *)
(* the reservations and the cursor are as they were at the start, no        *)
(* request is at the store, at the cursor or at the upstream call, and a    *)
(* request that has ended has ended 500 without having tried a model.       *)
Thm_C31_EmptyPoolEnds500 ==
    api_keys = <<>> /\ runtime_on =>
        /\ events = EmptyDict
        /\ disk = <<>>
        /\ updated_at = now_iso(0)
        /\ cursor = 0
        /\ next_id = 0
        /\ issued = {}
        /\ \A t \in DOMAIN req :
              /\ req[t].pc \in {"idle", "admit", "done"}
              /\ req[t].tried = <<>>
              /\ req[t].got = {}
              /\ req[t].fin = <<>>
              /\ req[t].pc = "done" => req[t].status = 500

(* a request made of a service without keys has ended *)
Wit_C31_EndedWithoutKeys ==
    /\ api_keys = <<>>
    /\ runtime_on
    /\ req[1].pc = "done"
    /\ req[1].status = 500
    /\ req[1].preferred = DEFAULT_MODEL_PRO

(* positive limits a key can be asked about *)
PositiveLimits == {[rpm |-> m, rpd |-> d] : m \in 1..MaxEvents, d \in 1..(MaxEvents + 1)}

(* the events of a list that lie in the window ending at t, by position *)
WindowOf(entries, t, window) == {i \in DOMAIN entries : entries[i].ts >= t - window}

(* the ts that has k events of S before it when S is put in order of ts *)
TsInOrder(entries, S, k) ==
    CHOOSE x \in {entries[i].ts : i \in S} :
        /\ Cardinality({i \in S : entries[i].ts < x}) <= k
        /\ Cardinality({i \in S : entries[i].ts <= x}) > k

(* the wait of the statement: wm and wd where their window is full *)
StatedWait(entries, lim, t) ==
    LET minute == WindowOf(entries, t, RpmWindow)
        day == WindowOf(entries, t, RpdWindow)
        rpm_used == Cardinality(minute)
        rpd_used == Cardinality(day)
        wm == Max(0, TsInOrder(entries, minute, rpm_used - lim.rpm) + RpmWindow - t)
        wd == Max(0, TsInOrder(entries, day, rpd_used - lim.rpd) + RpdWindow - t)
    IN IF rpm_used < lim.rpm /\ rpd_used < lim.rpd THEN 0
       ELSE IF rpd_used < lim.rpd THEN Max(1, CeilSeconds(wm))
       ELSE IF rpm_used < lim.rpm THEN Max(1, CeilSeconds(wd))
       ELSE Max(1, CeilSeconds(Max(wm, wd)))

(* _key_wait_seconds_locked called on its own: a key holds a list of events *)
(* in any order of ts (finalize_reservation rewrites ts in place, the clock *)
(* can be set back), the bucket has positive limits, and the call is made, *)
(* as reserve_key and snapshot make it, on the pruned list at the time of   *)
(* the prune; it leaves the wait.                                           *)
WaitLists ==
    UNION {{[i \in 1..n |-> [id |-> uuid4(i - 1), ts |-> ts[i]]] :
               ts \in [1..n -> TimePoints]} : n \in 0..(MaxEvents + 1)}

(* the list of the one key of the pool, as the call sees it *)
WaitEntries ==
    Ledger(PruneLocked(events, now).events, MODEL_BUCKET_NANO,
           fingerprint_api_key(api_keys[1]))

InitWait ==
    /\ now \in TimePoints
    /\ api_keys = SubSeq(AllKeys, 1, 1)
    /\ \E lim \in PositiveLimits : limits = [b \in MODEL_BUCKETS |-> lim]
    /\ \E entries \in WaitLists :
          events = IF entries = <<>> THEN EmptyDict
                   ELSE DictSet(EmptyDict, MODEL_BUCKET_NANO,
                                DictSet(EmptyDict, fingerprint_api_key(api_keys[1]),
                                        entries))
    /\ updated_at = now_iso(0)
    /\ disk = <<>>
    /\ tmp_file = <<>>
    /\ cursor = 0
    /\ next_id = MaxEvents + 1
    /\ issued = {}
    /\ last = NoOp
    /\ tally = NoTally
    /\ runtime_on = TRUE
    /\ req = <<>>

WaitCall ==
    /\ last.op = "none"
    /\ last' = [NoOp EXCEPT
                   !.op = "wait",
                   !.bucket = MODEL_BUCKET_NANO,
                   !.retry_after =
                       KeyWaitSecondsLocked(WaitEntries, limits[MODEL_BUCKET_NANO],
                                            now)]
    /\ UNCHANGED <<now, api_keys, limits, runtime_on, events, updated_at, disk,
                   tmp_file, cursor, next_id, issued, req, tally>>

SpecWait == InitWait /\ [][WaitCall]_vars

(* C32: for positive limits, a key's wait_seconds is 0 when neither window  *)
(* is full, and otherwise max(1, ceil(max(wm, wd))) where wm = max(0,       *)
(* minute_events[rpm_used - rpm].ts + 60 - now) if rpm_used >= rpm and wd = *)
(* max(0, day_events[rpd_used - rpd].ts + 86400 - now) if rpd_used >= rpd:  *)
(* the maximum, not the minimum, of the two windows. Stated of the value    *)
(* the call has left, for every list, time and pair of positive limits it   *)
(* was made with.                                                           *)
Thm_C32_WaitIsMaxOfWindows ==
    last.op = "wait" =>
       last.retry_after = StatedWait(WaitEntries, limits[last.bucket], now)

(* the single key with rpm = 2 holds two events of the last minute, the     *)
(* older one of the start, and the call is made a part of a second later:   *)
(* the wait is the time until the older event leaves the minute, rounded up *)
(* to the whole minute; with both limits 1 the wait is that of the day, the *)
(* longer one                                                               *)
Wit_C32_ThirdRequestWaits ==
    /\ last.op = "wait"
    /\ limits[last.bucket] = [rpm |-> 2, rpd |-> 3]
    /\ now = MaxOff
    /\ \E e \in {WaitEntries} :
          /\ Len(e) = 2
          /\ e[1].ts = 0
          /\ e[2].ts = MaxOff
          /\ e[1].ts + RpmWindow - now < RpmWindow
          /\ last.retry_after = RPM_WINDOW_SECONDS
          /\ KeyWaitSecondsLocked(e, [rpm |-> 1, rpd |-> 1], now) = RPD_WINDOW_SECONDS

(* the position in the pool of the key a reservation was made on *)
KeyIndexOf(reservation) ==
    CHOOSE i \in 0..(Len(api_keys) - 1) :
        fingerprint_api_key(api_keys[i + 1]) = reservation.key_fingerprint

(* C33: with rate-limit runtime active, after reserve_api_key_for_model     *)
(* succeeds the cursor equals allocation.key_index + 1, and after it is     *)
(* refused the cursor equals start_index + 1, where start_index is the      *)
(* cursor mod pool size read at the start of that call; this holds for each *)
(* call also when another request's call ran between the read and the       *)
(* write. Stated of the steps of two workers: the step that begins a call   *)
(* reads start_index, and the step that ends it leaves the cursor one past  *)
(* the key of the reservation it returns, or one past that start_index when *)
(* it raises, whatever the cursor was meanwhile.                            *)
Thm_C33_CursorAfterCall ==
    [][\A t \in DOMAIN req :
          /\ req[t].pc = "admit" /\ req'[t].pc = "reserve" =>
                /\ runtime_on
                /\ req'[t].start_index = cursor % Len(api_keys)
          /\ req[t].pc = "write" /\ req'[t].pc = "upstream" =>
                /\ req'[t].start_index = req[t].start_index
                /\ req'[t].reservation \in issued
                /\ cursor' = KeyIndexOf(req'[t].reservation) + 1
          /\ req[t].pc = "write" /\ req'[t].pc = "done" =>
                /\ req'[t].status = 429
                /\ req'[t].reservation = NoReservation
                /\ cursor' = req[t].start_index + 1]_vars

(* the call of the second worker read the cursor at 0 and has been given    *)
(* the second key; before it has written the cursor, a call of the first    *)
(* worker was refused and has left the cursor at its own start_index + 1    *)
Wit_C33_RefusedCallWroteMeanwhile ==
    /\ Len(req) = 2
    /\ Len(api_keys) = 2
    /\ runtime_on
    /\ req[1].pc = "done"
    /\ req[1].status = 429
    /\ req[1].tried = <<>>
    /\ cursor = req[1].start_index + 1
    /\ req[2].pc = "write"
    /\ req[2].allocated
    /\ req[2].start_index = 0
    /\ req[2].key_index = 1

(* C34: prune(now) removes exactly the events with ts < now - 86400, keeps  *)
(* every event with ts >= now - 86400 unchanged, drops fingerprint submaps  *)
(* and bucket submaps left empty, and refreshes updated_at to iso(now) if   *)
(* and only if it removed something. Stated of the prune of every ledger    *)
(* the store gets into, at the time of the state: each list of the result   *)
(* is the list of the events not older than a day, as they were; the result *)
(* has no empty list and no empty bucket; it reports a change exactly when  *)
(* the result is not the ledger it was given (an event, a list or a bucket  *)
(* is gone); and a snapshot, which changes updated_at by its prune only,    *)
(* returns iso(now) in that case and the updated_at it found otherwise.     *)
Thm_C34_PruneExact ==
    \A p \in {PruneLocked(events, now)} :
       /\ \A b \in MODEL_BUCKETS : \A f \in Fingerprints :
             Ledger(p.events, b, f) = FreshEntries(events, b, f, now)
       /\ \A b \in DOMAIN p.events :
             /\ b \in DOMAIN events
             /\ DOMAIN p.events[b] # {}
             /\ \A f \in DOMAIN p.events[b] :
                   f \in DOMAIN events[b] /\ p.events[b][f] # <<>>
       /\ p.changed <=> p.events # events
       /\ Snapshot(events, updated_at, disk, api_keys, limits, TRUE, now).updated_at
             = IF p.events # events THEN now_iso(now) ELSE updated_at

(* a day after the second of two reservations on one key: the first event   *)
(* has been removed, the second one, a day old to the tick, is kept, and    *)
(* updated_at is the time of that snapshot                                  *)
Wit_C34_PrunedToTheTick ==
    /\ last.op = "snapshot"
    /\ now = RpdWindow + MaxOff
    /\ next_id = 2
    /\ updated_at = now_iso(now)
    /\ \E b \in DOMAIN events : \E f \in DOMAIN events[b] :
          /\ Len(events[b][f]) = 1
          /\ events[b][f][1].ts = now - RpdWindow
          /\ Held(events) = {<<b, f, events[b][f][1].id>>}

(* a name that is, blanks aside, one of the two configured ids *)
Matched(name) == strip(name) \in {get_vertex_model_pro, get_vertex_model}

(* the bucket of the statement *)
StatedBucket(model, preferred) ==
    IF strip(model) = get_vertex_model_pro THEN MODEL_BUCKET_PRO
    ELSE IF strip(model) = get_vertex_model THEN MODEL_BUCKET_NANO
    ELSE IF strip(preferred) = get_vertex_model_pro THEN MODEL_BUCKET_PRO
    ELSE MODEL_BUCKET_NANO

(* classify_model_bucket called on its own: the caller holds a model name   *)
(* and a preferred name, and the call leaves the bucket                     *)
InitClassify ==
    /\ InitStore
    /\ runtime_on = TRUE
    /\ \E model \in ModelNames : \E preferred \in ModelNames :
          req = <<[Idle EXCEPT !.pc = "classify", !.models = <<model>>, !.i = 1,
                               !.preferred = preferred]>>

ClassifyCall(t) ==
    /\ req[t].pc = "classify"
    /\ req' = [req EXCEPT
                  ![t].pc = "classified",
                  ![t].bucket = classify_model_bucket(req[t].models[req[t].i],
                                                      req[t].preferred)]
    /\ UNCHANGED <<Others, StoreVars, cursor, tally>>

NextClassify == \E t \in DOMAIN req : ClassifyCall(t)

SpecClassify == InitClassify /\ [][NextClassify]_vars

(* C35: classify_model_bucket(model, preferred) returns premium if model    *)
(* equals the configured premium id, else standard if model equals the      *)
(* configured standard id, else (model empty or unmatched) premium if       *)
(* preferred equals the premium id and standard otherwise; the preferred id *)
(* is consulted only when the model id is empty or unmatched. Names are     *)
(* compared as the code compares them, without the blanks around them: the  *)
(* bucket a call has returned is the bucket of the statement, and for a     *)
(* model that is one of the two configured ids it is the bucket the call    *)
(* returns for that model without a preferred id.                           *)
Thm_C35_ClassifyByModelFirst ==
    \A t \in DOMAIN req :
       req[t].pc = "classified" =>
          /\ req[t].bucket = StatedBucket(req[t].models[1], req[t].preferred)
          /\ Matched(req[t].models[1]) =>
                req[t].bucket = classify_model_bucket(req[t].models[1], "")

(* the call was made with the configured standard model for a request that  *)
(* prefers the premium one: the bucket is the standard one                  *)
Wit_C35_StandardThoughPremiumPreferred ==
    /\ req[1].pc = "classified"
    /\ req[1].models = <<get_vertex_model>>
    /\ req[1].preferred = PaddedModelPro
    /\ req[1].bucket = MODEL_BUCKET_NANO

(* C36 as stated: a snapshot call made when no event has expired leaves the *)
(* ledger's updated_at unchanged and does not rewrite the state file: two   *)
(* consecutive snapshots for a non-empty pool, with no reserve or finalize  *)
(* in between and no event crossing the 86400 s cutoff, report the same     *)
(* updated_at. In a step that is a snapshot taken of a ledger none of whose *)
(* events is older than a day, updated_at and the state file stay as they   *)
(* are.                                                                     *)
Cex_C36_IdleSnapshotKeepsUpdatedAt ==
    [][/\ SnapshotStep
       /\ api_keys # <<>>
       /\ Unexpired(events, now) = Held(events)
       => /\ updated_at' = updated_at
          /\ disk' = disk]_vars

(* C37: for a non-empty pool with enabled = true, snapshot reports          *)
(* exhausted = true for a bucket at time t if and only if reserve_key for   *)
(* that bucket with the same keys and limits at time t would return null,   *)
(* and in that case snapshot's retry_after_seconds equals the retry_after   *)
(* that reserve_key would return. Stated of every ledger the store gets     *)
(* into, at the time of the state and for each bucket: the report snapshot  *)
(* computes after its prune, and what reserve_key returns when called from  *)
(* the head of the pool.                                                    *)
Thm_C37_ExhaustedIffRefused ==
    api_keys # <<>> =>
       \A b \in MODEL_BUCKETS :
          \A s \in {SnapshotBucket(PruneLocked(events, now).events, b, api_keys,
                                    limits[b], TRUE, now)} :
             \A r \in {ReserveKey(events, updated_at, disk, b, api_keys, limits[b],
                                  0, now, uuid4(next_id))} :
                /\ s.exhausted <=> ~r.allocated
                /\ s.exhausted => s.retry_after_seconds = r.retry_after

(* a pool of two keys was refused in one bucket with a wait of a minute:    *)
(* a snapshot reports that bucket exhausted with the same wait, and the     *)
(* other bucket not exhausted                                               *)
Wit_C37_RefusedAndExhausted ==
    /\ Len(api_keys) = 2
    /\ last.op = "reserve"
    /\ ~last.allocated
    /\ last.retry_after = RPM_WINDOW_SECONDS
    /\ \E s \in {SnapshotBucket(PruneLocked(events, now).events, last.bucket,
                                  api_keys, limits[last.bucket], TRUE, now)} :
          /\ s.exhausted
          /\ s.retry_after_seconds = last.retry_after
    /\ \E b \in MODEL_BUCKETS :
          ~SnapshotBucket(PruneLocked(events, now).events, b, api_keys, limits[b],
                          TRUE, now).exhausted

(* the events of a ledger as (bucket, fingerprint, id, ts) *)
EventsOf(ev) ==
    {<<p[1], p[2], ev[p[1]][p[2]][p[3]].id, ev[p[1]][p[2]][p[3]].ts>> :
        p \in Places(ev)}

(* the events the state file holds, none when there is no file *)
FileEvents(dsk) == IF dsk = <<>> THEN {} ELSE EventsOf(dsk[1].events)

(* C38: whenever reserve_key returns an allocation, and whenever            *)
(* finalize_reservation has updated an event, on return the persisted state *)
(* file contains exactly the events (bucket, fingerprint, id, ts) of the    *)
(* in-memory ledger: no admitted or finalized reservation exists only in    *)
(* memory, so a restart after the call still counts it. Stated of the       *)
(* state such a call has left: the file holds the events of the ledger, and *)
(* the state loaded from the file holds them, the event of the call with    *)
(* the ts of the ledger among them.                                         *)
Thm_C38_PersistedOnReturn ==
    \/ last.op = "reserve" /\ last.allocated
    \/ last.op = "finalize" /\ last.updated
    => /\ FileEvents(disk) = EventsOf(events)
       /\ EventsOf(LoadState(disk, now).events) = EventsOf(events)
       /\ \E e \in EventsOf(LoadState(disk, now).events) :
             /\ e[1] = last.bucket
             /\ e[2] = last.key_fingerprint
             /\ e[3] = last.event_id

(* an event reserved at the start was finalized later, and the file holds   *)
(* it with the later ts                                                     *)
Wit_C38_FinalizedTsOnFile ==
    /\ last.op = "finalize"
    /\ last.updated
    /\ now > 0
    /\ <<last.bucket, last.key_fingerprint, last.event_id, now>> \in FileEvents(disk)
    /\ updated_at = now_iso(now)

-----------------------------------------------------------------------------
(* A refused caller that waits: after reserve_key has refused a bucket that *)
(* has keys and positive limits, nothing is reserved for another bucket and *)
(* nothing is finalized; time passes, the status is polled, and reserve_key *)
(* is called for that bucket again.                                         *)

(* the instants of the clock and one more, a day after the last of them     *)
LiveTimePoints == TimePoints \cup {2 * (RpdWindow + MaxOff)}

(* reserve_key has refused bucket b, which has keys and positive limits *)
Refused(b) ==
    /\ last.op = "reserve"
    /\ last.bucket = b
    /\ ~last.allocated
    /\ api_keys # <<>>
    /\ limits[b].rpm > 0
    /\ limits[b].rpd > 0

Waiting == \E b \in MODEL_BUCKETS : Refused(b)

(* reserve_key has returned an allocation for bucket b *)
Granted(b) == last.op = "reserve" /\ last.bucket = b /\ last.allocated

(* time.time() moves on, past the last instant a request arrives at *)
TimePasses ==
    /\ \E t \in LiveTimePoints : t > now /\ now' = t
    /\ UNCHANGED <<api_keys, limits, runtime_on, events, updated_at, disk,
                   tmp_file, cursor, next_id, issued, last, req, tally>>

(* a call of reserve_key while the model has ids left to draw *)
LiveReserve(model_bucket, start_index) ==
    /\ next_id < MaxGrants
    /\ ApplyReserve(model_bucket, start_index, MaxGrants)
    /\ UNCHANGED <<now, api_keys, limits, runtime_on, tmp_file, cursor, req,
                   tally>>

(* the request that was served last finalizes its reservation *)
FinalizeLast ==
    /\ last.op = "reserve"
    /\ last.allocated
    /\ StoreFinalize([model_bucket |-> last.bucket,
                      key_fingerprint |-> last.key_fingerprint,
                      event_id |-> last.event_id])

(* requests arrive one after another up to the last instant of TimePoints: *)
(* each calls reserve_key and, when served, may finalize its reservation    *)
Arrival ==
    /\ ~Waiting
    /\ now \in TimePoints
    /\ \/ \E b \in MODEL_BUCKETS : \E s \in StartIndexes : LiveReserve(b, s)
       \/ FinalizeLast

(* the refused caller calls reserve_key for its bucket again *)
Retry ==
    /\ Waiting
    /\ \E s \in StartIndexes : LiveReserve(last.bucket, s)

(* a status poll while the caller waits: snapshot, which reserves nothing *)
PollWhileWaiting ==
    /\ Waiting
    /\ \E r \in {Snapshot(events, updated_at, disk, api_keys, limits,
                          runtime_on /\ api_keys # <<>>, now)} :
          /\ events' = r.events
          /\ updated_at' = r.updated_at
          /\ disk' = r.disk
    /\ UNCHANGED <<now, api_keys, limits, runtime_on, tmp_file, cursor, next_id,
                   issued, last, req, tally>>

NextLive ==
    \/ TimePasses
    \/ Arrival
    \/ Retry
    \/ PollWhileWaiting

(* ENABLED <<Retry>>_vars written out as a predicate of the state: a call  *)
(* that is refused again, prunes nothing and reports what the call before   *)
(* it reported leaves the state as it was, and is no step                   *)
RetryEnabled ==
    /\ Waiting
    /\ next_id < MaxGrants
    /\ \E s \in StartIndexes :
          \E r \in {ReserveKey(events, updated_at, disk, last.bucket, api_keys,
                               limits[last.bucket], s, now, uuid4(next_id))} :
             \/ r.allocated
             \/ r.events # events
             \/ r.updated_at # updated_at
             \/ r.disk # disk
             \/ s # last.start_index
             \/ r.key_index # last.key_index
             \/ r.key_fingerprint # last.key_fingerprint
             \/ r.retry_after # last.retry_after

(* WF_vars(Retry), with RetryEnabled for ENABLED <<Retry>>_vars *)
RetryIsMade == []<>(~RetryEnabled) \/ []<><<Retry>>_vars

(* time keeps advancing, and the refused caller does call again *)
SpecLive ==
    /\ Init
    /\ [][NextLive]_vars
    /\ WF_vars(TimePasses)
    /\ RetryIsMade

(* C39: if reserve_key refuses a request for a non-empty pool whose bucket  *)
(* has rpm > 0 and rpd > 0, and no further reservation or finalization      *)
(* occurs while time keeps advancing, then a later reserve_key call for     *)
(* that bucket eventually returns an allocation.                            *)
Thm_C39_RefusedCallerIsServed ==
    \A b \in MODEL_BUCKETS : Refused(b) ~> Granted(b)

(* the allocation came more than a day after the last instant a request    *)
(* arrives at: only the call of a caller that waited makes it               *)
Wit_C39_ServedAfterTheWait ==
    /\ last.op = "reserve"
    /\ last.allocated
    /\ now > RpdWindow + MaxOff
    /\ Len(api_keys) = MaxKeys

-----------------------------------------------------------------------------
(* C40: reserve_key for bucket B that allocates key K, and                  *)
(* finalize_reservation of a reservation on (B, K), leave the events (ids   *)
(* and ts) of every other (bucket, key) pair unchanged apart from removal   *)
(* of events older than 86400 s, so usage in one bucket never changes       *)
(* availability in the other bucket; finalize_reservation with an event id  *)
(* not present changes no event at all: as in the first part, the events    *)
(* older than 86400 s go, and every list is otherwise what it was.          *)
Thm_C40_OtherPairsUntouched ==
    [][/\ (ReserveStep /\ last'.allocated) \/ FinalizeStep =>
             /\ \A b \in MODEL_BUCKETS : \A f \in Fingerprints :
                   b # last'.bucket \/ f # last'.key_fingerprint =>
                      Ledger(events', b, f) = FreshEntries(events, b, f, now)
             /\ \A b \in MODEL_BUCKETS \ {last'.bucket} : \A i \in DOMAIN api_keys :
                   \A f \in {fingerprint_api_key(api_keys[i])} :
                      IsKeyAvailableLocked(Ledger(events', b, f), limits[b], now)
                      <=> IsKeyAvailableLocked(Ledger(events, b, f), limits[b], now)
       /\ FinalizeStep /\ ~last'.updated =>
             \A b \in MODEL_BUCKETS : \A f \in Fingerprints :
                Ledger(events', b, f) = FreshEntries(events, b, f, now)]_vars

(* a reservation was finalized at a later instant while the same key held   *)
(* an event of the other bucket, which has kept the ts of its reservation   *)
Wit_C40_OtherBucketKeptItsTs ==
    /\ last.op = "finalize"
    /\ last.updated
    /\ \E b \in MODEL_BUCKETS \ {last.bucket} :
          /\ Len(Ledger(events, b, last.key_fingerprint)) = 1
          /\ Ledger(events, b, last.key_fingerprint)[1].ts < now
          /\ ~IsKeyAvailableLocked(Ledger(events, b, last.key_fingerprint),
                                   limits[b], now)

====
